---- MODULE Spec2Model ----
(***************************************************************************)
(* Morse Melody Studio: the encoders (app.py IntelligentMelodyGenerator,   *)
(* enhanced_morse_music.py morse_to_enhanced_midi / morse_to_ai_enhanced_  *)
(* midi, morse_music.py morse_to_midi) and the timing decoder              *)
(* (app.py decode_midi_to_morse), modelled as one state machine.           *)
(*                                                                         *)
(* Time is counted in units of 1/8000 beat, so that every constant of the  *)
(* source (0.25, 0.1, 0.3, 0.8, 0.02, 5 percent of 0.125 ...) is an        *)
(* integer.  MIDI ticks are 960 per beat, taken by truncation as MIDIUtil  *)
(* does.  Characters are one-character strings, texts are sequences of     *)
(* characters.                                                             *)
(***************************************************************************)
EXTENDS Integers, Sequences, FiniteSets, TLC

\* ------------------------------------------------------------------ bounds
\* longest message explored by the wide specification
MaxLen == 3
\* a restarted process draws its string-hash salt (PYTHONHASHSEED) from
\* 0..NumSalts; the first process has salt 0
NumSalts == 1
\* a restarted process draws its operating-system entropy state from
\* 0..NumEntropy; the first process has state 0
NumEntropy == 1
\* number of encode calls followed in one process by the sequential spec
MaxCalls == 2
\* number of process restarts followed by the sequential spec
MaxRestarts == 1
\* the melody generator is tried alone in generator states 0..NumSeeds
NumSeeds == 7

\* ------------------------------------------------------- program constants
\* units per beat of the model's time axis
Beat == 8000
\* dot and dash durations (0.25 and 0.75 beats), every encoder
DotDur == 2000
DashDur == 6000
\* MIDIUtil's TICKSPERQUARTERNOTE
TicksPerBeat == 960

None == "none"

\* no file
NoMidi == << >>

\* ------------------------------------------------------------- Morse table
MorseOrder ==
    << "A", "B", "C", "D", "E", "F", "G", "H", "I", "J", "K", "L", "M",
       "N", "O", "P", "Q", "R", "S", "T", "U", "V", "W", "X", "Y", "Z",
       "0", "1", "2", "3", "4", "5", "6", "7", "8", "9", " " >>

MORSE_CODE ==
       "A" :> << ".", "-" >> @@ "B" :> << "-", ".", ".", "." >> @@ "C" :> << "-", ".", "-", "." >>
    @@ "D" :> << "-", ".", "." >> @@ "E" :> << "." >> @@ "F" :> << ".", ".", "-", "." >>
    @@ "G" :> << "-", "-", "." >> @@ "H" :> << ".", ".", ".", "." >> @@ "I" :> << ".", "." >>
    @@ "J" :> << ".", "-", "-", "-" >> @@ "K" :> << "-", ".", "-" >> @@ "L" :> << ".", "-", ".", "." >>
    @@ "M" :> << "-", "-" >> @@ "N" :> << "-", "." >> @@ "O" :> << "-", "-", "-" >>
    @@ "P" :> << ".", "-", "-", "." >> @@ "Q" :> << "-", "-", ".", "-" >> @@ "R" :> << ".", "-", "." >>
    @@ "S" :> << ".", ".", "." >> @@ "T" :> << "-" >> @@ "U" :> << ".", ".", "-" >>
    @@ "V" :> << ".", ".", ".", "-" >> @@ "W" :> << ".", "-", "-" >> @@ "X" :> << "-", ".", ".", "-" >>
    @@ "Y" :> << "-", ".", "-", "-" >> @@ "Z" :> << "-", "-", ".", "." >> @@ "0" :> << "-", "-", "-", "-", "-" >>
    @@ "1" :> << ".", "-", "-", "-", "-" >> @@ "2" :> << ".", ".", "-", "-", "-" >> @@ "3" :> << ".", ".", ".", "-", "-" >>
    @@ "4" :> << ".", ".", ".", ".", "-" >> @@ "5" :> << ".", ".", ".", ".", "." >> @@ "6" :> << "-", ".", ".", ".", "." >>
    @@ "7" :> << "-", "-", ".", ".", "." >> @@ "8" :> << "-", "-", "-", ".", "." >> @@ "9" :> << "-", "-", "-", "-", "." >>
    @@ " " :> << "/" >>

\* MORSE_CODE_DICT of morse_music.py and enhanced_morse_music.py: the same
\* pairs as MORSE_CODE (the digits are listed in another order)
MORSE_CODE_DICT == MORSE_CODE

\* ------------------------------------------------------------ text helpers
LowerLetters ==
    << "a", "b", "c", "d", "e", "f", "g", "h", "i", "j", "k", "l", "m",
       "n", "o", "p", "q", "r", "s", "t", "u", "v", "w", "x", "y", "z" >>

\* str.upper() on one character
UpperChar(c) ==
    IF \E k \in 1..26 : LowerLetters[k] = c
    THEN MorseOrder[CHOOSE k \in 1..26 : LowerLetters[k] = c]
    ELSE c

\* str.upper()
Upper(text) == [k \in 1..Len(text) |-> UpperChar(text[k])]

RECURSIVE LStrip(_)
LStrip(s) == IF s # << >> /\ Head(s) = " " THEN LStrip(Tail(s)) ELSE s

RECURSIVE RStrip(_)
RStrip(s) ==
    IF s # << >> /\ s[Len(s)] = " " THEN RStrip(SubSeq(s, 1, Len(s) - 1)) ELSE s

\* str.strip()
Strip(s) == RStrip(LStrip(s))

\* str.isalnum() on one character (ASCII letters and digits)
IsAlnum(c) ==
    \/ \E k \in 1..36 : MorseOrder[k] = c
    \/ \E k \in 1..26 : LowerLetters[k] = c

RECURSIVE Flatten(_)
Flatten(ss) == IF ss = << >> THEN << >> ELSE Head(ss) \o Flatten(Tail(ss))

RECURSIVE JoinSp(_)
JoinSp(ss) ==
    IF ss = << >> THEN << >>
    ELSE IF Len(ss) = 1 THEN Head(ss)
    ELSE Head(ss) \o << " " >> \o JoinSp(Tail(ss))

\* a lookup of the character as typed, without upper()
MorseGet_as_typed(c) ==
    IF c \in DOMAIN MORSE_CODE_DICT THEN MORSE_CODE_DICT[c] ELSE << >>

\* MORSE_CODE_DICT.get(c.upper(), '')
MorseGet(c) ==
    IF UpperChar(c) \in DOMAIN MORSE_CODE_DICT THEN MORSE_CODE_DICT[UpperChar(c)] ELSE << >>

\* text_to_morse: the patterns of the characters joined by single spaces
text_to_morse(text) == JoinSp([k \in 1..Len(text) |-> MorseGet(text[k])])

\* the Morse expansion at the head of generate_melody: pattern and a letter
\* separator for every character of the table (the space included, whose
\* pattern is '/'); the elif branch for ' ' is kept as written
MorseSeqOfChar(ch) ==
    IF ch \in DOMAIN MORSE_CODE THEN MORSE_CODE[ch] \o << " " >>
    ELSE IF ch = " " THEN << "/" >>
    ELSE << >>

morse_sequence(text) ==
    Flatten([k \in 1..Len(text) |-> MorseSeqOfChar(Upper(text)[k])])

\* ------------------------------------------------- the random module, seeded
\* The module-level generator of Python's random is one shared state.  It is
\* modelled as a 16-bit linear congruential generator: a state, a step, and
\* the fraction state/65536 standing for random.random().  A fresh process
\* starts it from operating-system entropy (EntropyState).

\* the state after one draw
Adv(x) == (25173 * x + 13849) % 65536

\* int(random.random() * n) for the draw made in state x
Out(x, n) == (x * n) \div 65536

\* random.seed(s)
SeedState(s) == Adv(s % 65536)

\* the k-th state a fresh, unseeded process may find itself in
EntropyState(k) == (k * 9973 + 31337) % 65536

\* random.choice(seq) in state x
Choice(x, seq) == seq[1 + Out(x, Len(seq))]

\* random.randint(a, b) in state x
RandInt(x, a, b) == a + Out(x, b - a + 1)

\* random.random() < pct / 100 in state x
Chance(x, pct) == Out(x, 100) < pct

RECURSIVE SumSeq(_)
SumSeq(w) == IF w = << >> THEN 0 ELSE Head(w) + SumSeq(Tail(w))

\* random.choices(population, weights)[0] as an index: the first index whose
\* cumulative weight exceeds random() * total
ChoicesIndex(x, weights) ==
    LET u == Out(x, SumSeq(weights))
    IN  CHOOSE k \in 1..Len(weights) :
            /\ SumSeq(SubSeq(weights, 1, k)) > u
            /\ \A j \in 1..(k - 1) : SumSeq(SubSeq(weights, 1, j)) <= u

\* the state after k draws
RECURSIVE AdvN(_, _)
AdvN(x, k) == IF k = 0 THEN x ELSE AdvN(Adv(x), k - 1)

\* hash(str) of the interpreter: a polynomial hash of the characters salted
\* per process (hash randomisation)
CharCode(c) ==
    IF \E k \in 1..37 : MorseOrder[k] = c THEN CHOOSE k \in 1..37 : MorseOrder[k] = c
    ELSE IF \E k \in 1..26 : LowerLetters[k] = c
         THEN 40 + (CHOOSE k \in 1..26 : LowerLetters[k] = c)
    ELSE 99

RECURSIVE StrHash(_, _)
StrHash(h, text) ==
    IF text = << >> THEN h
    ELSE StrHash((h * 31 + CharCode(Head(text))) % 1000003, Tail(text))

\* ------------------------------------------------------------ sorted lists
RECURSIVE SortedSeqOf(_)
SortedSeqOf(S) ==
    IF S = {} THEN << >>
    ELSE LET m == CHOOSE x \in S : \A y \in S : x <= y
         IN  << m >> \o SortedSeqOf(S \ {m})

SeqRange(s) == {s[k] : k \in 1..Len(s)}

SelectInRange(s, lo, hi) == SelectSeq(s, LAMBDA n : lo <= n /\ n <= hi)

Abs(n) == IF n < 0 THEN -n ELSE n

\* min(seq, key=lambda x: abs(x - target)): the first element at the least
\* distance
Nearest(seq, target) ==
    seq[CHOOSE k \in 1..Len(seq) :
            /\ \A j \in 1..Len(seq) : Abs(seq[k] - target) <= Abs(seq[j] - target)
            /\ \A j \in 1..(k - 1) : Abs(seq[j] - target) > Abs(seq[k] - target)]

\* ------------------------------------------------ app.py: keys and styles
MusicKeys == {"C_MAJOR", "G_MAJOR", "D_MAJOR", "A_MINOR", "E_MINOR", "C_PENTATONIC", "A_BLUES"}

KeyRootOf ==
    [k \in MusicKeys |->
        CASE k = "C_MAJOR" -> 60 [] k = "G_MAJOR" -> 67 [] k = "D_MAJOR" -> 62
          [] k = "A_MINOR" -> 69 [] k = "E_MINOR" -> 64 [] k = "C_PENTATONIC" -> 60
          [] k = "A_BLUES" -> 69]

KeyScaleOf ==
    [k \in MusicKeys |->
        CASE k \in {"C_MAJOR", "G_MAJOR", "D_MAJOR"} -> << 0, 2, 4, 5, 7, 9, 11 >>
          [] k \in {"A_MINOR", "E_MINOR"} -> << 0, 2, 3, 5, 7, 8, 10 >>
          [] k = "C_PENTATONIC" -> << 0, 2, 4, 7, 9 >>
          [] k = "A_BLUES" -> << 0, 3, 5, 6, 7, 10 >>]

MusicStyles == {"CLASSICAL", "FOLK", "JAZZ", "AMBIENT", "CELTIC"}

\* position of the enum member, standing for its name inside the seed string
KeyCode(k) ==
    CASE k = "C_MAJOR" -> 1 [] k = "G_MAJOR" -> 2 [] k = "D_MAJOR" -> 3 [] k = "A_MINOR" -> 4
      [] k = "E_MINOR" -> 5 [] k = "C_PENTATONIC" -> 6 [] k = "A_BLUES" -> 7

StyleCode(s) ==
    CASE s = "CLASSICAL" -> 1 [] s = "FOLK" -> 2 [] s = "JAZZ" -> 3 [] s = "AMBIENT" -> 4
      [] s = "CELTIC" -> 5

\* hash(f"{message}{key.name}{style.name}") % 1000000 under the process salt
SeedOf(slt, message, key, style) ==
    (((StrHash(slt * 7919 + 17, message) * 31 + KeyCode(key)) % 1000003) * 31
        + StyleCode(style)) % 1000000

\* _generate_scale_notes: the scale over octaves -1, 0, +1 kept to 36..96,
\* sorted
_generate_scale_notes(root, scale) ==
    SortedSeqOf({root + (o * 12) + scale[d] : o \in {-1, 0, 1}, d \in 1..Len(scale)}
                \cap (36..96))

\* _create_interval_preferences: interval sizes and their weights, in
\* thousandths
IntervalSizes == << 1, 2, 3, 4, 5, 7, 12 >>

_create_interval_preferences(style) ==
    CASE style = "JAZZ"    -> << 200, 300, 225, 150, 100, 120, 20 >>
      [] style = "CELTIC"  -> << 200, 300, 150, 150, 180, 104, 20 >>
      [] style = "AMBIENT" -> << 400, 450, 150, 150, 100, 80, 20 >>
      [] OTHER             -> << 200, 300, 150, 150, 100, 80, 20 >>

\* _create_phrase_contour, in tenths
_create_phrase_contour(style) ==
    CASE style = "CLASSICAL" -> << 2, 4, 6, 8, 9, 7, 4, 1 >>
      [] style = "FOLK"      -> << 3, 6, 4, 7, 5, 8, 3, 2 >>
      [] style = "JAZZ"      -> << 4, 2, 8, 3, 9, 1, 6, 4 >>
      [] style = "CELTIC"    -> << 5, 7, 3, 8, 4, 9, 2, 5 >>
      [] OTHER               -> << 4, 5, 6, 5, 4, 6, 5, 4 >>

Min2(a, b) == IF a < b THEN a ELSE b
Max2(a, b) == IF a > b THEN a ELSE b

\* _get_phrase_target, in tenths (position counts from 0)
_get_phrase_target(style, position) ==
    _create_phrase_contour(style)[1 + Min2(position, Len(_create_phrase_contour(style)) - 1)]

\* ----------------------------------------- app.py: IntelligentMelodyGenerator
\* Note(pitch, start_time, duration, velocity, channel)
Note(p, t, d, v, ch) == [pitch |-> p, start |-> t, dur |-> d, vel |-> v, ch |-> ch]

\* a first-note rule that takes every pitch of the range, in the scale or not
middle_notes_chromatic(root, scale) == [k \in 1..8 |-> root + k - 1]

\* the notes the first-note rule chooses from
middle_notes(root, scale) ==
    SelectInRange(_generate_scale_notes(root, scale), root, root + 7)

\* direction of the last two moves of recent_notes (len >= 3): the sum of
\* +1 / -1 over the last two steps
recent_direction(recent) ==
    LET n == Len(recent)
    IN  (IF recent[n - 1] > recent[n - 2] THEN 1 ELSE -1)
      + (IF recent[n] > recent[n - 1] THEN 1 ELSE -1)

\* _choose_note_intelligently(morse_symbol, phrase_pos) run in generator
\* state x with memory recent: the pitch returned, the generator state and
\* the memory afterwards, and the direction the interval was applied in (0
\* when none was).  The first-note branch returns without recording the
\* pitch in recent_notes.
_choose_note_intelligently(x, recent, root, scale, style, morse_symbol, phrase_pos) ==
    LET scale_notes == _generate_scale_notes(root, scale)
    IN
    IF recent = << >>
    THEN [note |-> Choice(x, middle_notes(root, scale)), rng |-> Adv(x), recent |-> recent,
          direction |-> 0]
    ELSE
    LET current_note == recent[Len(recent)]
        lo == scale_notes[1]
        hi == scale_notes[Len(scale_notes)]
        target == _get_phrase_target(style, phrase_pos)
        \* current_height < target - 0.2, > target + 0.2, in tenths of the span
        below == (current_note - lo) * 10 < (target - 2) * (hi - lo)
        above == (current_note - lo) * 10 > (target + 2) * (hi - lo)
        dir1 == IF below THEN 1 ELSE IF above THEN -1 ELSE Choice(x, << -1, 1 >>)
        x1 == IF below \/ above THEN x ELSE Adv(x)
        \* one random.random() is drawn for a dot or a dash
        dir2 == IF morse_symbol = "." /\ Chance(x1, 30) THEN -1
                ELSE IF morse_symbol = "-" /\ Chance(x1, 30) THEN 1
                ELSE dir1
        x2 == Adv(x1)
        dir3 == IF Len(recent) >= 3 /\ Abs(recent_direction(recent)) >= 2
                THEN -dir2 ELSE dir2
        chosen_interval == IntervalSizes[ChoicesIndex(x2, _create_interval_preferences(style))]
        x3 == Adv(x2)
        candidate_note == current_note + (chosen_interval * dir3)
        snapped == Nearest(scale_notes, candidate_note)
        final_note == IF snapped < lo \/ snapped > hi THEN current_note ELSE snapped
        appended == Append(recent, final_note)
    IN  [note |-> final_note, rng |-> x3,
         recent |-> IF Len(appended) > 6 THEN Tail(appended) ELSE appended,
         direction |-> dir3]

\* gaps of generate_melody: 0.1 after a note, 0.3 at a letter separator,
\* 0.8 at a word separator
AppNoteGap == 800
AppLetterGap == 2400
AppWordGap == 6400

\* ------------------------------------------------------------- MIDI files
\* MIDIFile.addNote converts beats to ticks by truncation
Ticks(u) == (u * TicksPerBeat) \div Beat

\* A written note: the tick of its note-on, its length in ticks, its pitch.
TickNote(on, len, p) == [on |-> on, len |-> len, pitch |-> p]

\* A file is a sequence of tracks, a track the sequence of its note events
\* in file order, each with its absolute tick.
Event(type, time, note) == [type |-> type, time |-> time, note |-> note]

\* sort key of the k-th note's events: by tick, a note-off before a note-on
\* of the same tick, then by order of insertion
EventKey(tn, k, isOn) ==
    ((IF isOn THEN tn.on ELSE tn.on + tn.len) * 2 + (IF isOn THEN 1 ELSE 0)) * 256 + k

\* the events MIDIFile.writeFile emits for the notes added to one track
TrackEvents(tnotes) ==
    LET keys == {EventKey(tnotes[k], k, b) : k \in 1..Len(tnotes), b \in BOOLEAN}
        order == SortedSeqOf(keys)
        ev(key) == LET k == key % 256
                       isOn == (key \div 256) % 2 = 1
                   IN  Event(IF isOn THEN "on" ELSE "off", key \div 512, tnotes[k].pitch)
    IN  [j \in 1..Len(order) |-> ev(order[j])]

\* MIDIFile(num_tracks) in its default format 1 writes a tempo track first
\* and the caller's track n as track n + 1 of the file
WriteFile(usertracks) ==
    << << >> >> \o [n \in 1..Len(usertracks) |-> TrackEvents(usertracks[n])]

\* -------------------------------------------- app.py: decode_midi_to_morse
\* pairing of one track's note-on and note-off events (active_notes), added
\* to the notes found so far: << start_time, duration, note >> triples
RECURSIVE PairEvents(_, _, _)
PairEvents(events, active, notes) ==
    IF events = << >> THEN notes
    ELSE LET e == Head(events)
         IN  IF e.type = "on"
             THEN PairEvents(Tail(events), (e.note :> e.time) @@ active, notes)
             ELSE IF e.note \in DOMAIN active
             THEN PairEvents(Tail(events),
                             [n \in (DOMAIN active) \ {e.note} |-> active[n]],
                             Append(notes, << active[e.note], e.time - active[e.note], e.note >>))
             ELSE PairEvents(Tail(events), active, notes)

EmptyActive == [n \in {} |-> 0]

\* a track loop without its break: the notes of every track
RECURSIVE ExtractNotesAll(_)
ExtractNotesAll(tracks) ==
    IF tracks = << >> THEN << >>
    ELSE PairEvents(Head(tracks), EmptyActive, << >>) \o ExtractNotesAll(Tail(tracks))

\* the loop over mid.tracks: the notes of the first track that yields any
RECURSIVE ExtractNotes(_)
ExtractNotes(tracks) ==
    IF tracks = << >> THEN << >>
    ELSE LET found == PairEvents(Head(tracks), EmptyActive, << >>)
         IN  IF found # << >> THEN found ELSE ExtractNotes(Tail(tracks))

\* notes.sort(key=lambda x: x[0]): stable insertion by start time
RECURSIVE InsertByStart(_, _)
InsertByStart(sorted, n) ==
    IF sorted = << >> THEN << n >>
    ELSE IF sorted[Len(sorted)][1] <= n[1] THEN Append(sorted, n)
    ELSE Append(InsertByStart(SubSeq(sorted, 1, Len(sorted) - 1), n), sorted[Len(sorted)])

RECURSIVE SortByStart(_)
SortByStart(notes) ==
    IF notes = << >> THEN << >>
    ELSE InsertByStart(SortByStart(SubSeq(notes, 1, Len(notes) - 1)), notes[Len(notes)])

RECURSIVE SortInts(_)
SortInts(q) ==
    IF q = << >> THEN << >>
    ELSE LET rest == SortInts(SubSeq(q, 1, Len(q) - 1))
             v == q[Len(q)]
             below == SelectSeq(rest, LAMBDA y : y <= v)
             above == SelectSeq(rest, LAMBDA y : y > v)
         IN  below \o << v >> \o above

\* sorted_durations[len // 3]
dot_threshold(notes) ==
    LET sorted_durations == SortInts([k \in 1..Len(notes) |-> notes[k][2]])
        threshold_index == Len(sorted_durations) \div 3
    IN  IF threshold_index < Len(sorted_durations)
        THEN sorted_durations[threshold_index + 1]
        ELSE sorted_durations[1]

\* a loop that puts a separator before the first symbol as well
RECURSIVE ToSymbols_unguarded(_, _, _, _)
ToSymbols_unguarded(notes, thr, morse_symbols, last_end_time) ==
    IF notes = << >> THEN morse_symbols
    ELSE LET start_time == Head(notes)[1]
             duration == Head(notes)[2]
             gap == start_time - last_end_time
             sep == IF gap > thr * 3 THEN << "/" >>
                    ELSE IF 2 * gap > thr * 3 THEN << " " >>
                    ELSE << >>
             sym == IF duration <= thr * 2 THEN "." ELSE "-"
         IN  ToSymbols_unguarded(Tail(notes), thr, morse_symbols \o sep \o << sym >>,
                                 start_time + duration)

\* a loop that separates at a gap equal to a threshold as well
RECURSIVE ToSymbols_at_or_above(_, _, _, _)
ToSymbols_at_or_above(notes, thr, morse_symbols, last_end_time) ==
    IF notes = << >> THEN morse_symbols
    ELSE LET start_time == Head(notes)[1]
             duration == Head(notes)[2]
             gap == start_time - last_end_time
             last == IF morse_symbols = << >> THEN None ELSE morse_symbols[Len(morse_symbols)]
             sep == IF gap >= thr * 3
                    THEN (IF morse_symbols # << >> /\ last # "/" THEN << "/" >> ELSE << >>)
                    ELSE IF 2 * gap >= thr * 3
                    THEN (IF morse_symbols # << >> /\ last \notin {" ", "/"} THEN << " " >> ELSE << >>)
                    ELSE << >>
             sym == IF duration <= thr * 2 THEN "." ELSE "-"
         IN  ToSymbols_at_or_above(Tail(notes), thr, morse_symbols \o sep \o << sym >>,
                                   start_time + duration)

\* the loop that turns sorted notes into Morse symbols
RECURSIVE ToSymbols(_, _, _, _)
ToSymbols(notes, thr, morse_symbols, last_end_time) ==
    IF notes = << >> THEN morse_symbols
    ELSE LET start_time == Head(notes)[1]
             duration == Head(notes)[2]
             gap == start_time - last_end_time
             last == IF morse_symbols = << >> THEN None ELSE morse_symbols[Len(morse_symbols)]
             sep == IF gap > thr * 3
                    THEN (IF morse_symbols # << >> /\ last # "/" THEN << "/" >> ELSE << >>)
                    ELSE IF 2 * gap > thr * 3
                    THEN (IF morse_symbols # << >> /\ last \notin {" ", "/"} THEN << " " >> ELSE << >>)
                    ELSE << >>
             sym == IF duration <= thr * 2 THEN "." ELSE "-"
         IN  ToSymbols(Tail(notes), thr, morse_symbols \o sep \o << sym >>,
                       start_time + duration)

\* the reverse lookup: the first letter of the table with this pattern, or '?'
LookupLetter(pattern) ==
    IF \E k \in 1..Len(MorseOrder) : MORSE_CODE[MorseOrder[k]] = pattern
    THEN MorseOrder[CHOOSE k \in 1..Len(MorseOrder) :
                        /\ MORSE_CODE[MorseOrder[k]] = pattern
                        /\ \A j \in 1..(k - 1) : MORSE_CODE[MorseOrder[j]] # pattern]
    ELSE "?"

\* the loop that turns Morse symbols into text, the final letter included
RECURSIVE ToText(_, _, _)
ToText(symbols, decoded_text, current_letter) ==
    IF symbols = << >>
    THEN IF current_letter # << >> THEN Append(decoded_text, LookupLetter(current_letter))
         ELSE decoded_text
    ELSE LET s == Head(symbols)
             closed == IF current_letter # << >>
                       THEN Append(decoded_text, LookupLetter(current_letter))
                       ELSE decoded_text
         IN  IF s \in {".", "-"} THEN ToText(Tail(symbols), decoded_text, Append(current_letter, s))
             ELSE IF s = " " THEN ToText(Tail(symbols), closed, << >>)
             ELSE IF s = "/" THEN ToText(Tail(symbols), Append(closed, " "), << >>)
             ELSE ToText(Tail(symbols), decoded_text, current_letter)

CountOf(q, c) == Len(SelectSeq(q, LAMBDA y : y = c))

\* a confidence left as a fraction of one, not multiplied by 100
Confidence_fraction(decoded_text) ==
    LET total_chars == Len(decoded_text) - CountOf(decoded_text, " ")
        unknown_chars == CountOf(decoded_text, "?")
    IN  IF total_chars > 0
        THEN [num |-> total_chars - unknown_chars, den |-> total_chars]
        ELSE [num |-> 0, den |-> 1]

\* confidence as the fraction num / den of the percentage the code returns
\* ((total - unknown) / max(total, 1) * 100, or 0 when total is 0)
Confidence(decoded_text) ==
    LET total_chars == Len(decoded_text) - CountOf(decoded_text, " ")
        unknown_chars == CountOf(decoded_text, "?")
    IN  IF total_chars > 0
        THEN [num |-> (total_chars - unknown_chars) * 100, den |-> Max2(total_chars, 1)]
        ELSE [num |-> 0, den |-> 1]

ZeroConfidence == [num |-> 0, den |-> 1]

\* a diagnostic text, kept whole as a one-element text
Diagnostic(message) == << message >>

\* a decoder without the check of len(durations)
decode_without_length_check(file) ==
    LET found == ExtractNotes(file)
        notes == SortByStart(found)
    IN  IF found = << >>
        THEN [morse |-> << >>, text |-> Diagnostic("No notes found in MIDI file"),
              confidence |-> ZeroConfidence]
        ELSE LET morse_symbols == ToSymbols(notes, dot_threshold(notes), << >>, 0)
                 decoded_text == ToText(morse_symbols, << >>, << >>)
             IN  [morse |-> morse_symbols, text |-> Strip(decoded_text),
                  confidence |-> Confidence(decoded_text)]

\* decode_midi_to_morse on a file that mido can read: (morse, text, confidence)
decode_midi_to_morse(file) ==
    LET found == ExtractNotes(file)
        notes == SortByStart(found)
    IN  IF found = << >>
        THEN [morse |-> << >>, text |-> Diagnostic("No notes found in MIDI file"),
              confidence |-> ZeroConfidence]
        ELSE IF Len(notes) < 2
        THEN [morse |-> << >>, text |-> Diagnostic("Not enough notes to analyze"),
              confidence |-> ZeroConfidence]
        ELSE LET morse_symbols == ToSymbols(notes, dot_threshold(notes), << >>, 0)
                 decoded_text == ToText(morse_symbols, << >>, << >>)
             IN  [morse |-> morse_symbols, text |-> Strip(decoded_text),
                  confidence |-> Confidence(decoded_text)]

\* what the caller of a function sees when it raises instead of returning
Raised == [raised |-> "Exception"]

\* a decoder whose body is not inside try / except
decode_unguarded(readable, file) ==
    IF readable THEN decode_midi_to_morse(file) ELSE Raised

\* decode_midi_to_morse(midi_file_bytes) as a whole.  mido.MidiFile raises on
\* bytes that are no MIDI file (readable is FALSE); the except clause that
\* wraps the body returns the error triple.
decode_midi_bytes(readable, file) ==
    IF readable THEN decode_midi_to_morse(file)
    ELSE [morse |-> << >>, text |-> Diagnostic("Error decoding MIDI"),
          confidence |-> ZeroConfidence]

\* ------------------------------------- app.py: ChordProgressionGenerator
\* _create_progressions: the chords of the style, as pitches
_create_progressions(root, style) ==
    CASE style = "FOLK" ->
            << << root, root + 4, root + 7 >>, << root + 7, root + 11, root + 2 >>,
               << root + 5, root + 9, root + 0 >>, << root, root + 4, root + 7 >> >>
      [] style = "JAZZ" ->
            << << root, root + 4, root + 7, root + 11 >>, << root + 9, root + 1, root + 4, root + 8 >>,
               << root + 2, root + 6, root + 9, root + 0 >>, << root + 7, root + 11, root + 2, root + 5 >> >>
      [] style = "CELTIC" ->
            << << root, root + 7 >>, << root + 7, root + 2 >>,
               << root + 5, root + 0 >>, << root, root + 7 >> >>
      [] style = "AMBIENT" ->
            << << root, root + 4, root + 7, root + 11, root + 14 >>,
               << root + 2, root + 6, root + 9, root + 1, root + 4 >>,
               << root + 5, root + 9, root + 0, root + 4, root + 7 >>,
               << root - 5, root - 1, root + 2, root + 6, root + 9 >> >>
      [] OTHER ->
            << << root, root + 4, root + 7 >>, << root + 9, root + 1, root + 4 >>,
               << root + 5, root + 9, root + 0 >>, << root + 7, root + 11, root + 2 >> >>

\* chord_duration = 2.0 and the roll of 0.02 per chord note
AppChordDur == 16000
AppRoll == 160

\* generate_harmony(melody_duration) run in generator state x: the chords of
\* the windows starting at current_time, chord_index
RECURSIVE generate_harmony(_, _, _, _, _)
generate_harmony(x, progressions, melody_duration, current_time, chord_index) ==
    IF ~(current_time < melody_duration) THEN [notes |-> << >>, rng |-> x]
    ELSE LET chord == progressions[1 + (chord_index % Len(progressions))]
             here == [i \in 1..Len(chord) |->
                        Note(chord[i] - 12, current_time + ((i - 1) * AppRoll), AppChordDur,
                             RandInt(AdvN(x, i - 1), 50, 70), 1)]
             rest == generate_harmony(AdvN(x, Len(chord)), progressions, melody_duration,
                                      current_time + AppChordDur, chord_index + 1)
         IN  [notes |-> here \o rest.notes, rng |-> rest.rng]

MaxOf(S) == CHOOSE m \in S : \A y \in S : y <= m

\* max(note.start_time + note.duration for note in melody_notes)
total_duration(melody_notes) ==
    MaxOf({melody_notes[k].start + melody_notes[k].dur : k \in 1..Len(melody_notes)})

\* --------------------------------- enhanced_morse_music.py: scales, chords
ScaleTypes == {"major", "minor", "pentatonic", "blues", "dorian", "mixolydian"}

SCALES ==
    [t \in ScaleTypes |->
        CASE t = "major" -> << 0, 2, 4, 5, 7, 9, 11 >>
          [] t = "minor" -> << 0, 2, 3, 5, 7, 8, 10 >>
          [] t = "pentatonic" -> << 0, 2, 4, 7, 9 >>
          [] t = "blues" -> << 0, 3, 5, 6, 7, 10 >>
          [] t = "dorian" -> << 0, 2, 3, 5, 7, 9, 10 >>
          [] t = "mixolydian" -> << 0, 2, 4, 5, 7, 9, 10 >>]

ProgressionNames == {"classic", "pop", "folk", "minor", "jazz", "blues"}

CHORD_PROGRESSIONS ==
    [n \in ProgressionNames |->
        CASE n = "classic" -> << 0, 5, 3, 4 >>
          [] n = "pop" -> << 0, 3, 5, 4 >>
          [] n = "folk" -> << 0, 4, 0, 4 >>
          [] n = "minor" -> << 0, 6, 3, 4 >>
          [] n = "jazz" -> << 0, 5, 1, 4 >>
          [] n = "blues" -> << 0, 0, 4, 0, 5, 4, 0, 5 >>]

AiStyles == {"ballad", "folk", "jazz", "ambient"}

get_scale_notes(root_pitch, scale_type) ==
    [k \in 1..Len(SCALES[scale_type]) |-> root_pitch + SCALES[scale_type][k]]

get_chord_notes(root_pitch, chord_type) ==
    CASE chord_type = "minor" -> << root_pitch, root_pitch + 3, root_pitch + 7 >>
      [] chord_type = "dim" -> << root_pitch, root_pitch + 3, root_pitch + 6 >>
      [] chord_type = "major7" -> << root_pitch, root_pitch + 4, root_pitch + 7, root_pitch + 11 >>
      [] chord_type = "minor7" -> << root_pitch, root_pitch + 3, root_pitch + 7, root_pitch + 10 >>
      [] chord_type = "dom7" -> << root_pitch, root_pitch + 4, root_pitch + 7, root_pitch + 10 >>
      [] OTHER -> << root_pitch, root_pitch + 4, root_pitch + 7 >>

\* ------------------------------------------- the track layout of the encoders
\* num_tracks of morse_to_enhanced_midi and morse_to_ai_enhanced_midi
num_tracks(add_harmony, add_bass, add_drums) ==
    1 + (IF add_harmony THEN 1 ELSE 0) + (IF add_bass THEN 1 ELSE 0)
      + (IF add_drums THEN 1 ELSE 0)

melody_track == 0

\* a bass track index that does not depend on add_harmony
bass_track_fixed(add_harmony, add_bass) == IF add_bass THEN 2 ELSE -1

\* harmony_track, bass_track, drum_track: a track index, or -1 for Python's
\* None
harmony_track(add_harmony) == IF add_harmony THEN 1 ELSE -1

bass_track(add_harmony, add_bass) ==
    IF add_bass THEN (IF add_harmony THEN 2 ELSE 1) ELSE -1

drum_track(add_harmony, add_bass, add_drums) ==
    IF add_drums THEN num_tracks(add_harmony, add_bass, add_drums) - 1 ELSE -1

\* A write to the MIDI object: midi.addNote(track, channel, pitch, time,
\* duration, volume), with the role of the code that made it; short is the
\* tick lost when the float start time lies just below its exact value.
AddNote(role, track, ch, p, t, d, v) ==
    [role |-> role, track |-> track, ch |-> ch, pitch |-> p, start |-> t, dur |-> d, vel |-> v,
     short |-> 0]

\* the notes added to track n (counted from 0), in order, as written notes
TrackOf(writes, n) ==
    LET mine == SelectSeq(writes, LAMBDA w : w.track = n)
    IN  [k \in 1..Len(mine) |-> TickNote(Ticks(mine[k].start) - mine[k].short, Ticks(mine[k].dur), mine[k].pitch)]

\* the user tracks of a MIDIFile(n) after the writes
TracksOf(writes, n) == [t \in 1..n |-> TrackOf(writes, t - 1)]

\* --------------------------- enhanced_morse_music.py: morse_to_enhanced_midi
\* duration_unit * 8
ChordDur == 16000

\* a harmony loop that stays on the last chord of the progression
RECURSIVE EnhHarmony_unwrapped(_, _, _, _, _, _)
EnhHarmony_unwrapped(track, key_root, progression, time, harmony_time, chord_index) ==
    IF ~(harmony_time < time) THEN << >>
    ELSE LET chord_root == key_root + progression[1 + Min2(chord_index, Len(progression) - 1)]
             chord_notes == get_chord_notes(chord_root, "major")
         IN  [i \in 1..Len(chord_notes) |->
                 AddNote("harmony", track, 1, chord_notes[i], harmony_time, ChordDur, 70)]
             \o EnhHarmony_unwrapped(track, key_root, progression, time,
                                     harmony_time + ChordDur, chord_index + 1)

\* the harmony loop: major chords of the progression, one per window
RECURSIVE EnhHarmony(_, _, _, _, _, _)
EnhHarmony(track, key_root, progression, time, harmony_time, chord_index) ==
    IF ~(harmony_time < time) THEN << >>
    ELSE LET chord_root == key_root + progression[1 + (chord_index % Len(progression))]
             chord_notes == get_chord_notes(chord_root, "major")
         IN  [i \in 1..Len(chord_notes) |->
                 AddNote("harmony", track, 1, chord_notes[i], harmony_time, ChordDur, 70)]
             \o EnhHarmony(track, key_root, progression, time, harmony_time + ChordDur,
                           chord_index + 1)

\* the bass loop: root, fifth, root, fifth in quarter notes, stopping inside
\* a pattern once the melody has ended
RECURSIVE EnhBassPattern(_, _, _, _)
EnhBassPattern(track, bass_notes, time, bass_time) ==
    IF bass_notes = << >> THEN [writes |-> << >>, bass_time |-> bass_time]
    ELSE IF bass_time < time
    THEN LET rest == EnhBassPattern(track, Tail(bass_notes), time, bass_time + (ChordDur \div 4))
         IN  [writes |-> << AddNote("bass", track, 2, Head(bass_notes), bass_time,
                                    ChordDur \div 4, 80) >> \o rest.writes,
              bass_time |-> rest.bass_time]
    ELSE EnhBassPattern(track, Tail(bass_notes), time, bass_time)

RECURSIVE EnhBass(_, _, _, _, _, _)
EnhBass(track, key_root, progression, time, bass_time, chord_index) ==
    IF ~(bass_time < time) THEN << >>
    ELSE LET chord_root == key_root + progression[1 + (chord_index % Len(progression))] - 12
             pat == EnhBassPattern(track, << chord_root, chord_root + 7, chord_root, chord_root + 7 >>,
                                   time, bass_time)
         IN  pat.writes \o EnhBass(track, key_root, progression, time, pat.bass_time,
                                   chord_index + 1)

\* the drum loop: kick on beat 1, snare on beat 3, hi-hat on every beat
RECURSIVE EnhDrums(_, _, _)
EnhDrums(track, time, drum_time) ==
    IF ~(drum_time < time) THEN << >>
    ELSE LET beat_in_measure == (drum_time \div DotDur) % 4
             hit == IF beat_in_measure = 0
                    THEN << AddNote("drums", track, 9, 36, drum_time, DotDur, 90) >>
                    ELSE IF beat_in_measure = 2
                    THEN << AddNote("drums", track, 9, 38, drum_time, DotDur, 90) >>
                    ELSE << >>
         IN  hit \o << AddNote("drums", track, 9, 42, drum_time, DotDur \div 2, 45) >>
                 \o EnhDrums(track, time, drum_time + DotDur)

\* every accompaniment write of morse_to_enhanced_midi, after the melody
EnhAccompaniment(key_root, chord_progression, time, add_harmony, add_bass, add_drums) ==
    (IF add_harmony
     THEN EnhHarmony(harmony_track(add_harmony), key_root,
                     CHORD_PROGRESSIONS[chord_progression], time, 0, 0)
     ELSE << >>)
    \o (IF add_bass
        THEN EnhBass(bass_track(add_harmony, add_bass), key_root,
                     CHORD_PROGRESSIONS[chord_progression], time, 0, 0)
        ELSE << >>)
    \o (IF add_drums
        THEN EnhDrums(drum_track(add_harmony, add_bass, add_drums), time, 0)
        ELSE << >>)

\* -------------------------------------- enhanced_morse_music.py: MelodicAI
\* create_extended_scale: the scale one octave below, at, and one octave
\* above the key root, sorted
create_extended_scale(key_root, scale_type) ==
    SortedSeqOf({get_scale_notes(key_root, scale_type)[k] + o :
                    k \in 1..Len(SCALES[scale_type]), o \in {-12, 0, 12}})

\* create_melodic_patterns: whether the style resolves tendency tones
tendency_tones(style) == style # "ambient"

\* create_interval_weights: interval sizes and weights (in 1/200) of a style
IntervalsOf(style) ==
    CASE style = "ballad" -> << 0, 1, 2, 3, 4, 5, 7, 8, 9 >>
      [] style = "folk" -> << 0, 1, 2, 3, 4, 5, 7 >>
      [] style = "jazz" -> << 0, 1, 2, 3, 4, 5, 7, 8, 9, 11 >>
      [] OTHER -> << 0, 1, 2, 3, 4 >>

create_interval_weights(style) ==
    CASE style = "ballad" -> << 10, 50, 50, 30, 20, 16, 14, 6, 4 >>
      [] style = "folk" -> << 6, 30, 70, 40, 30, 14, 10 >>
      [] style = "jazz" -> << 4, 30, 40, 30, 30, 20, 20, 10, 10, 6 >>
      [] OTHER -> << 20, 80, 60, 30, 10 >>

\* get_phrase_target(position / 8) in generator state x: the direction and
\* the number of random draws it made.  rise_fall compares position / 8 with
\* the climax position 0.7; wave takes the sign of sin(2 pi position / 8) as
\* the floats give it (positive at position 4, where the sine is 1.2e-16);
\* complex draws once or twice.
get_phrase_target(x, style, position) ==
    CASE style = "folk" ->
            [dir |-> IF (position % 8) \in 1..4 THEN "rise" ELSE "fall", draws |-> 0]
      [] style = "ambient" -> [dir |-> "neutral", draws |-> 0]
      [] style = "jazz" ->
            IF Chance(x, 40) THEN [dir |-> "rise", draws |-> 1]
            ELSE IF Chance(Adv(x), 80) THEN [dir |-> "fall", draws |-> 2]
            ELSE [dir |-> "neutral", draws |-> 2]
      [] OTHER ->
            [dir |-> IF position * 10 < 56 THEN "rise" ELSE "fall", draws |-> 0]

\* choose_melodic_interval in generator state x (one draw): rising boosts
\* the weights of the non-zero intervals by 1.5, falling negates them
choose_melodic_interval(x, style, target_direction) ==
    LET sizes == IntervalsOf(style)
        base == create_interval_weights(style)
        weights == IF target_direction = "rise"
                   THEN [k \in 1..Len(base) |-> IF sizes[k] > 0 THEN (base[k] * 3) \div 2 ELSE base[k]]
                   ELSE base
        intervals == IF target_direction = "fall"
                     THEN [k \in 1..Len(sizes) |-> -sizes[k]]
                     ELSE sizes
        chosen == intervals[ChoicesIndex(x, weights)]
    IN  IF target_direction = "fall" /\ chosen > 0 THEN -chosen
        ELSE IF target_direction = "rise" /\ chosen < 0 THEN -chosen
        ELSE chosen

\* what apply_tendency_tones was given and did: the candidate next_note, the
\* pitch returned, the draws made and the resolution that fired
Tendency(next_note, returned, draws, fired) ==
    [note |-> returned, draws |-> draws, fired |-> fired, candidate |-> next_note]

\* apply_tendency_tones(note, next_note) in generator state x.  The
\* resolution adds the key root to the octave base of next_note,
\* (next_note // 12) * 12.
apply_tendency_tones(x, key_root, style, note, next_note) ==
    LET note_degree == (note - key_root) % 12
    IN  IF ~tendency_tones(style) THEN Tendency(next_note, next_note, 0, "no")
        ELSE IF note_degree = 11
        THEN (IF Chance(x, 60)
              THEN Tendency(next_note, key_root + ((next_note \div 12) * 12), 1, "leading")
              ELSE Tendency(next_note, next_note, 1, "no"))
        ELSE IF note_degree = 5
        THEN (IF Chance(x, 40)
              THEN Tendency(next_note, key_root + 4 + ((next_note \div 12) * 12), 1, "fourth")
              ELSE Tendency(next_note, next_note, 1, "no"))
        ELSE Tendency(next_note, next_note, 0, "no")

\* ensure_scale_membership(note) in generator state x (one draw): the
\* closest note of the extended scale nine times in ten, else the note itself
ensure_scale_membership(x, key_root, scale_type, note) ==
    IF Chance(x, 90)
    THEN [note |-> Nearest(create_extended_scale(key_root, scale_type), note), chromatic |-> FALSE]
    ELSE [note |-> note, chromatic |-> TRUE]

\* what choose_melodic_note returns and leaves behind: the pitch, the
\* generator state, melody_history with the pitch appended (at most 8 kept),
\* which branches were taken, and what apply_tendency_tones was given and
\* returned on the way
Chosen(note, x, history, opening, chromatic, adjusted, tend) ==
    [note |-> note, rng |-> x,
     history |-> IF Len(history) >= 8 THEN Tail(Append(history, note)) ELSE Append(history, note),
     opening |-> opening, chromatic |-> chromatic, adjusted |-> adjusted, fired |-> tend.fired,
     candidate |-> tend.candidate, resolved |-> tend.note]

\* the dot / dash adjustment, which draws once when there is a history
AdjustForSymbol(ranged, adjust, x, history, key_root, symbol, chromatic, tend) ==
    Chosen(IF symbol = "." /\ adjust THEN Max2(ranged - 2, key_root - 12)
           ELSE IF symbol = "-" /\ adjust THEN Min2(ranged + 2, key_root + 19)
           ELSE ranged,
           x, history, FALSE, chromatic, symbol \in {".", "-"} /\ adjust, tend)

\* a note passed on as it is, without the clamp
KeepInRange_unclamped(member, x, history, key_root, symbol, tend) ==
    AdjustForSymbol(member.note, Chance(x, 30), Adv(x), history, key_root, symbol,
                    member.chromatic, tend)

\* the clamp to key_root - 12 .. key_root + 19
KeepInRange(member, x, history, key_root, symbol, tend) ==
    AdjustForSymbol(Max2(key_root - 12, Min2(member.note, key_root + 19)), Chance(x, 30), Adv(x),
                    history, key_root, symbol, member.chromatic, tend)

SnapToScale(tend, x, history, key_root, scale_type, symbol) ==
    KeepInRange(ensure_scale_membership(AdvN(x, tend.draws), key_root, scale_type, tend.note),
                Adv(AdvN(x, tend.draws)), history, key_root, symbol, tend)

ResolveTendency(interval, x, history, key_root, scale_type, style, symbol) ==
    SnapToScale(apply_tendency_tones(x, key_root, style, history[Len(history)],
                                     history[Len(history)] + interval),
                x, history, key_root, scale_type, symbol)

\* the opening note when melody_history is empty, else a step from the last
\* note
NoteToward(target_direction, x, history, key_root, scale_type, style, symbol) ==
    IF history = << >>
    THEN Chosen(IF symbol = "." THEN Choice(x, << key_root, key_root + 2 >>)
                ELSE Choice(x, << key_root + 2, key_root + 4 >>),
                Adv(x), history, TRUE, FALSE, FALSE, Tendency(0, 0, 0, "no"))
    ELSE ResolveTendency(choose_melodic_interval(x, style, target_direction), Adv(x),
                         history, key_root, scale_type, style, symbol)

AfterTarget(target, x, history, key_root, scale_type, style, symbol) ==
    NoteToward(target.dir, AdvN(x, target.draws), history, key_root, scale_type, style, symbol)

\* choose_melodic_note(symbol, position_in_phrase) in generator state x with
\* melody_history history
choose_melodic_note(x, history, key_root, scale_type, style, symbol, position_in_phrase) ==
    AfterTarget(get_phrase_target(x, style, position_in_phrase), x, history, key_root,
                scale_type, style, symbol)

\* create_phrase_ending: the pitch that closes a phrase
create_phrase_ending(history, key_root) ==
    IF Len(history) < 2 THEN key_root
    ELSE LET current_note == history[Len(history)]
             target_ending == Nearest(<< key_root, key_root + 4, key_root + 7 >>, current_note)
         IN  IF Abs(current_note - target_ending) <= 2 THEN target_ending
             ELSE current_note + (IF target_ending > current_note THEN 1 ELSE -1)

\* a humanization whose timing variance is +-0.2 beat
apply_humanization_wide(x, humanize, time, duration, velocity) ==
    IF humanize = "off" THEN [time |-> time, dur |-> duration, vel |-> velocity, rng |-> x]
    ELSE LET timing_variance == (Out(x, 41) * 80) - 1600
             duration_variance == 95 + Out(Adv(x), 11)
             velocity_variance == RandInt(AdvN(x, 2), -10, 10)
         IN  [time |-> Max2(0, time + timing_variance),
              dur |-> (duration * duration_variance) \div 100,
              vel |-> Max2(1, Min2(127, velocity + velocity_variance)),
              rng |-> AdvN(x, 3)]

\* apply_humanization(time, duration, velocity) in generator state x.  The
\* option is read with kwargs.get('humanize', True): it is applied unless the
\* caller passed humanize=False.  random.uniform(-0.02, 0.02) is taken on a
\* grid of 0.001 beat, random.uniform(0.95, 1.05) on a grid of 1 percent.
apply_humanization(x, humanize, time, duration, velocity) ==
    IF humanize = "off" THEN [time |-> time, dur |-> duration, vel |-> velocity, rng |-> x]
    ELSE LET timing_variance == (Out(x, 41) * 8) - 160
             duration_variance == 95 + Out(Adv(x), 11)
             velocity_variance == RandInt(AdvN(x, 2), -10, 10)
         IN  [time |-> Max2(0, time + timing_variance),
              dur |-> (duration * duration_variance) \div 100,
              vel |-> Max2(1, Min2(127, velocity + velocity_variance)),
              rng |-> AdvN(x, 3)]

\* ------------------ enhanced_morse_music.py: the accompaniment of the AI path
\* An option read with kwargs.get(name, True) is "absent", "off" or "on";
\* it is in force unless the caller passed False.
InForce(option) == option # "off"

\* chord_map of generate_smart_harmony: << scale degree, chord type >> in
\* dictionary order; the chord root offset is the scale degree
chord_map(scale_type) ==
    IF scale_type = "major"
    THEN << << 0, "major" >>, << 2, "minor" >>, << 4, "minor" >>, << 5, "major" >>,
            << 7, "major" >>, << 9, "minor" >>, << 11, "dim" >> >>
    ELSE << << 0, "minor" >>, << 2, "dim" >>, << 3, "major" >>, << 5, "minor" >>,
            << 7, "minor" >>, << 8, "major" >>, << 10, "major" >> >>

\* generate_smart_harmony(melody_note) in generator state x: the chord and
\* the generator state afterwards
generate_smart_harmony(x, key_root, scale_type, style, ai_harmony, melody_note) ==
    LET fallback == get_chord_notes(key_root, IF scale_type = "major" THEN "major" ELSE "minor")
        melody_scale_degree == (melody_note - key_root) % 12
        cm == chord_map(scale_type)
        fits(k) == melody_scale_degree \in {cm[k][1], (cm[k][1] + 2) % 12, (cm[k][1] + 4) % 12}
        best_chord == IF \E k \in 1..Len(cm) : fits(k)
                      THEN LET k == CHOOSE k \in 1..Len(cm) : fits(k) /\ \A j \in 1..(k - 1) : ~fits(j)
                           IN  get_chord_notes(key_root + cm[k][1], cm[k][2])
                      ELSE fallback
    IN  IF ~InForce(ai_harmony) THEN [chord |-> fallback, rng |-> x]
        ELSE IF style = "jazz"
        THEN (IF Chance(x, 40)
              THEN [chord |-> IF Len(best_chord) < 4
                              THEN Append(best_chord, best_chord[1] + Choice(Adv(x), << 9, 11, 13 >>))
                              ELSE best_chord,
                    rng |-> AdvN(x, 2)]
              ELSE [chord |-> best_chord, rng |-> Adv(x)])
        ELSE [chord |-> best_chord, rng |-> x]

\* the notes of one chord, each humanized in turn, 0.01 beat apart
RECURSIVE AiChordWrites(_, _, _, _, _, _)
AiChordWrites(x, humanize, track, chord_notes, harmony_time, i) ==
    IF i > Len(chord_notes) THEN [writes |-> << >>, rng |-> x]
    ELSE LET h == apply_humanization(x, humanize, harmony_time + ((i - 1) * 80), ChordDur, 70)
             rest == AiChordWrites(h.rng, humanize, track, chord_notes, harmony_time, i + 1)
         IN  [writes |-> << AddNote("harmony", track, 1, chord_notes[i], h.time, h.dur, h.vel) >>
                         \o rest.writes,
              rng |-> rest.rng]

\* the harmony loop of morse_to_ai_enhanced_midi; melody_notes are the
\* nominal << pitch, time, duration >> triples of the melody
RECURSIVE AiHarmony(_, _, _, _, _, _)
AiHarmony(x, c, opt, track, harmony_time, chord_index) ==
    IF ~(harmony_time < c.time) THEN [writes |-> << >>, rng |-> x]
    ELSE LET melody_in_period ==
                 SelectSeq(c.nominal, LAMBDA n : harmony_time <= n[2] /\ n[2] < harmony_time + ChordDur)
             progression == CHORD_PROGRESSIONS[opt.chord_progression]
             smart == generate_smart_harmony(x, c.root, c.scale_type, c.style, opt.ai_harmony,
                         melody_in_period[1 + (Len(melody_in_period) \div 2)][1])
             chord_notes == IF melody_in_period # << >> THEN smart.chord
                            ELSE get_chord_notes(c.root + progression[1 + (chord_index % Len(progression))],
                                                 "major")
             x1 == IF melody_in_period # << >> THEN smart.rng ELSE x
             here == AiChordWrites(x1, c.humanize, track, chord_notes, harmony_time, 1)
             rest == AiHarmony(here.rng, c, opt, track, harmony_time + ChordDur, chord_index + 1)
         IN  [writes |-> here.writes \o rest.writes, rng |-> rest.rng]

\* generate_walking_bass(current_chord, next_chord, duration) in generator
\* state x: << pitch, duration >> pairs and the generator state afterwards
generate_walking_bass(x, walking_bass, current_chord, next_chord, duration) ==
    LET current_root == current_chord[1] - 12
        next_root == next_chord[1] - 12
        far == Abs(next_root - current_root) > 2
        step_duration == duration \div 4
        third == IF far THEN current_root + (IF next_root > current_root THEN 1 ELSE -1)
                 ELSE Choice(x, << current_root + 3, current_root + 5 >>)
        approach_note == IF next_root > current_root THEN next_root - 1 ELSE next_root + 1
    IN  IF ~InForce(walking_bass)
        THEN [notes |-> << << current_root, duration >> >>, rng |-> x]
        ELSE [notes |-> << << current_root, step_duration >>, << current_root + 7, step_duration >>,
                           << third, step_duration >>, << approach_note, step_duration >> >>,
              rng |-> IF far THEN x ELSE Adv(x)]

RECURSIVE AiBassPattern(_, _, _, _, _, _)
AiBassPattern(x, humanize, track, bass_notes, time, bass_time) ==
    IF bass_notes = << >> THEN [writes |-> << >>, rng |-> x, bass_time |-> bass_time]
    ELSE IF bass_time < time
    THEN LET h == apply_humanization(x, humanize, bass_time, Head(bass_notes)[2], 80)
             rest == AiBassPattern(h.rng, humanize, track, Tail(bass_notes), time,
                                   bass_time + Head(bass_notes)[2])
         IN  [writes |-> << AddNote("bass", track, 2, Head(bass_notes)[1], h.time, h.dur, h.vel) >>
                         \o rest.writes,
              rng |-> rest.rng, bass_time |-> rest.bass_time]
    ELSE AiBassPattern(x, humanize, track, Tail(bass_notes), time, bass_time)

\* the bass loop of morse_to_ai_enhanced_midi
RECURSIVE AiBass(_, _, _, _, _, _)
AiBass(x, c, opt, track, bass_time, chord_index) ==
    IF ~(bass_time < c.time) THEN [writes |-> << >>, rng |-> x]
    ELSE LET progression == CHORD_PROGRESSIONS[opt.chord_progression]
             current_chord == get_chord_notes(
                 c.root + progression[1 + (chord_index % Len(progression))], "major")
             next_chord == get_chord_notes(
                 c.root + progression[1 + ((chord_index + 1) % Len(progression))], "major")
             walk == generate_walking_bass(x, opt.walking_bass, current_chord, next_chord, ChordDur)
             pat == AiBassPattern(walk.rng, c.humanize, track, walk.notes, c.time, bass_time)
             rest == AiBass(pat.rng, c, opt, track, pat.bass_time, chord_index + 1)
         IN  [writes |-> pat.writes \o rest.writes, rng |-> rest.rng]

\* the drum loop of morse_to_ai_enhanced_midi: a swing pattern for jazz,
\* else kick, snare and a hi-hat that is open one time in ten on the off-beats
RECURSIVE AiDrums(_, _, _, _, _)
AiDrums(x, style, track, time, drum_time) ==
    IF ~(drum_time < time) THEN [writes |-> << >>, rng |-> x]
    ELSE LET beat_in_measure == (drum_time \div DotDur) % 4
             kick == AddNote("drums", track, 9, 36, drum_time, DotDur, 90)
             snare == AddNote("drums", track, 9, 38, drum_time, DotDur, 90)
             jazz == (IF beat_in_measure = 0
                      THEN << kick, AddNote("drums", track, 9, 42, drum_time, 600, 30) >>
                      ELSE IF beat_in_measure = 2 THEN << snare >> ELSE << >>)
                     \o (IF beat_in_measure % 2 = 0
                         THEN << AddNote("drums", track, 9, 42, drum_time + 1340, 660, 22) >>
                         ELSE << >>)
             offbeat == beat_in_measure \in {1, 3}
             rock == (IF beat_in_measure = 0 THEN << kick >>
                      ELSE IF beat_in_measure = 2 THEN << snare >> ELSE << >>)
                     \o << AddNote("drums", track, 9,
                                   IF offbeat /\ Chance(x, 10) THEN 46 ELSE 42,
                                   drum_time, DotDur \div 2, 30) >>
             x1 == IF style # "jazz" /\ offbeat THEN Adv(x) ELSE x
             rest == AiDrums(x1, style, track, time, drum_time + DotDur)
         IN  [writes |-> (IF style = "jazz" THEN jazz ELSE rock) \o rest.writes, rng |-> rest.rng]

\* the drum track, after the harmony and the bass
AiWithDrums(x, c, opt) ==
    IF opt.add_drums
    THEN AiDrums(x, c.style, drum_track(opt.add_harmony, opt.add_bass, opt.add_drums), c.time, 0)
    ELSE [writes |-> << >>, rng |-> x]

AiJoin(written, d) == [writes |-> written \o d.writes, rng |-> d.rng]

AiAfterBass(harmony_writes, b, c, opt) ==
    AiJoin(harmony_writes \o b.writes, AiWithDrums(b.rng, c, opt))

AiAfterHarmony(h, c, opt) ==
    AiAfterBass(h.writes,
                IF opt.add_bass
                THEN AiBass(h.rng, c, opt, bass_track(opt.add_harmony, opt.add_bass), 0, 0)
                ELSE [writes |-> << >>, rng |-> h.rng],
                c, opt)

\* every accompaniment write of morse_to_ai_enhanced_midi, after the melody
AiAccompaniment(x, c, opt) ==
    AiAfterHarmony(IF opt.add_harmony
                   THEN AiHarmony(x, c, opt, harmony_track(opt.add_harmony), 0, 0)
                   ELSE [writes |-> << >>, rng |-> x],
                   c, opt)

\* ------------------------------------------------------------------- state
VARIABLES
    salt,       \* the process's string-hash salt
    rng,        \* the state of the module-level random generator
    ncalls,     \* encode calls started in this process
    restarts,   \* process restarts so far
    call,       \* the encode call in progress or last finished
    midi,       \* the MIDI file the last finished call produced, or NoMidi
    files,      \* the MIDI files on disk: path -> file
    decoded,    \* the result of the last decode: empty, or one result
    log,        \* finished encode calls: their inputs and melodies
    upload,     \* what the last decode was given: "none", "midi" or "garbage"
    other       \* the encode call of a second thread, not running now

vars == << salt, rng, ncalls, restarts, call, midi, files, decoded, log, upload, other >>

\* the accompaniment and rendering options of a call, read after the melody
NoOptions ==
    [add_harmony |-> FALSE, add_bass |-> FALSE, add_drums |-> FALSE,
     chord_progression |-> "classic", ai_harmony |-> "absent", walking_bass |-> "absent",
     render |-> "no_soundfont"]

\* a MIDI path in the temporary directory: its fixed stem and the part made
\* from the message
Path(stem, safe_text) == [stem |-> stem, safe |-> safe_text]

NoPath == Path("", << >>)

IdleCall ==
    [entry |-> "none", pc |-> "idle", msg |-> << >>, key |-> "-", root |-> 0,
     scale |-> << >>, scale_type |-> "-", style |-> "-", regen |-> FALSE,
     use_ai |-> FALSE, humanize |-> "off", seq |-> << >>, i |-> 1, time |-> 0,
     phrase_pos |-> 0, hist |-> << >>, notes |-> << >>, nominal |-> << >>,
     writes |-> << >>, ntracks |-> 0, opt |-> NoOptions, morse |-> << >>,
     path |-> NoPath, wav |-> None, mixed |-> FALSE, direction |-> 0]

NoFiles == [p \in {} |-> << >>]

Init ==
    /\ salt = 0
    /\ rng = EntropyState(0)
    /\ ncalls = 0
    /\ restarts = 0
    /\ call = IdleCall
    /\ midi = NoMidi
    /\ files = NoFiles
    /\ decoded = << >>
    /\ log = << >>
    /\ upload = "none"
    /\ other = IdleCall

Busy == call.pc \in {"melody", "accomp"}

\* what identifies an encode request, its Morse expansion, the melody it
\* produced and the path it wrote its MIDI file to
LogEntry(c) ==
    [entry |-> c.entry, msg |-> c.msg, key |-> c.key, root |-> c.root, scale |-> c.scale,
     scale_type |-> c.scale_type, style |-> c.style, regen |-> c.regen, use_ai |-> c.use_ai, humanize |-> c.humanize,
     seq |-> c.seq, notes |-> c.notes, mixed |-> c.mixed, path |-> c.path]

\* ------------------------------------------- app.py main: the Generate button
\* the handler up to the construction of the generator
AppGenerate(message, key, style, regenerate) ==
    /\ ~Busy
    /\ ncalls' = ncalls + 1
    /\ decoded' = << >>
    /\ midi' = NoMidi
    /\ IF Strip(message) = << >>
       THEN \* st.warning: nothing is generated
            /\ call' = [IdleCall EXCEPT !.entry = "app", !.pc = "rejected", !.msg = message]
            /\ rng' = rng
       ELSE /\ rng' = IF regenerate THEN rng
                      ELSE SeedState(SeedOf(salt, message, key, style))
            /\ call' = [IdleCall EXCEPT !.entry = "app", !.pc = "melody", !.msg = message,
                           !.key = key, !.root = KeyRootOf[key], !.scale = KeyScaleOf[key],
                           !.style = style, !.regen = regenerate,
                           !.seq = morse_sequence(message)]
    /\ upload' = "none"
    /\ UNCHANGED << salt, restarts, files, log, other >>

\* one iteration of the loop of generate_melody
AppMelodyStep ==
    /\ call.entry = "app" /\ call.pc = "melody"
    /\ call.i <= Len(call.seq)
    /\ LET symbol == call.seq[call.i]
           pick == _choose_note_intelligently(rng, call.hist, call.root, call.scale,
                                              call.style, symbol, call.phrase_pos)
       IN  CASE symbol = "." ->
                  /\ rng' = Adv(pick.rng)
                  /\ call' = [call EXCEPT !.i = @ + 1, !.hist = pick.recent,
                        !.direction = pick.direction,
                        !.notes = Append(@, Note(pick.note, call.time, DotDur,
                                                 RandInt(pick.rng, 70, 90), 0)),
                        !.time = @ + DotDur + AppNoteGap, !.phrase_pos = @ + 1]
             [] symbol = "-" ->
                  /\ rng' = Adv(pick.rng)
                  /\ call' = [call EXCEPT !.i = @ + 1, !.hist = pick.recent,
                        !.direction = pick.direction,
                        !.notes = Append(@, Note(pick.note, call.time, DashDur,
                                                 RandInt(pick.rng, 75, 95), 0)),
                        !.time = @ + DashDur + AppNoteGap, !.phrase_pos = @ + 1]
             [] symbol = " " ->
                  /\ rng' = rng
                  /\ call' = [call EXCEPT !.i = @ + 1, !.time = @ + AppLetterGap]
             [] symbol = "/" ->
                  /\ rng' = rng
                  /\ call' = [call EXCEPT !.i = @ + 1, !.time = @ + AppWordGap,
                                          !.phrase_pos = 0]
    /\ UNCHANGED << salt, ncalls, restarts, midi, files, decoded, log, upload, other >>

\* create_midi_file: the melody on track 0, the harmony on track 1 when there
\* is any.  A start time that is a sum of 0.1, 0.3 and 0.8 is a binary float
\* that may lie just below the exact value, so its tick may be one short
\* (short); durations and the first start time are exact.
create_midi_file(melody_notes, harmony_notes, slack) ==
    [k \in 1..Len(melody_notes) |->
        [AddNote("melody", 0, melody_notes[k].ch, melody_notes[k].pitch, melody_notes[k].start,
                 melody_notes[k].dur, melody_notes[k].vel) EXCEPT !.short = slack[k]]]
    \o [k \in 1..Len(harmony_notes) |->
        AddNote("harmony", 1, harmony_notes[k].ch, harmony_notes[k].pitch, harmony_notes[k].start,
                harmony_notes[k].dur, harmony_notes[k].vel)]

\* num_tracks of create_midi_file
app_num_tracks(harmony_notes) == IF harmony_notes # << >> THEN 2 ELSE 1

Slacks(melody_notes) ==
    {sl \in [1..Len(melody_notes) -> {0, 1}] :
        \A k \in 1..Len(melody_notes) : melody_notes[k].start = 0 => sl[k] = 0}

\* the rest of the handler: harmony, MIDI bytes, session state
AppFinish(add_harmony) ==
    /\ call.entry = "app" /\ call.pc = "melody"
    /\ call.i > Len(call.seq)
    /\ IF add_harmony /\ call.notes = << >>
       THEN \* max() of an empty sequence raises; the handler reports the error
            /\ call' = [call EXCEPT !.pc = "error", !.opt.add_harmony = add_harmony]
            /\ UNCHANGED << rng, midi, log >>
       ELSE LET h == IF add_harmony
                     THEN generate_harmony(rng, _create_progressions(call.root, call.style),
                                           total_duration(call.notes), 0, 0)
                     ELSE [notes |-> << >>, rng |-> rng]
            IN  \E slack \in Slacks(call.notes) :
                  LET writes == create_midi_file(call.notes, h.notes, slack)
                      n == app_num_tracks(h.notes)
                  IN  /\ rng' = h.rng
                      /\ call' = [call EXCEPT !.pc = "done", !.opt.add_harmony = add_harmony,
                                              !.writes = writes, !.ntracks = n]
                      /\ midi' = WriteFile(TracksOf(writes, n))
                      /\ log' = Append(log, LogEntry(call))
    /\ UNCHANGED << salt, ncalls, restarts, files, decoded, upload, other >>

\* the Decode button on the file just produced
DecodeUpload ==
    /\ call.pc = "done"
    /\ midi # NoMidi
    /\ decoded = << >>
    /\ decoded' = << decode_midi_bytes(TRUE, midi) >>
    /\ upload' = "midi"
    /\ UNCHANGED << salt, rng, ncalls, restarts, call, midi, files, log, other >>

\* ---------- enhanced_morse_music.py: generate_enhanced_files_from_text
\* "".join(c for c in text if c.isalnum())[:10]
safe_text(text) ==
    LET kept == SelectSeq(text, IsAlnum)
    IN  SubSeq(kept, 1, Min2(Len(kept), 10))

\* the call up to the first symbol of the melody loop.  humanize is
\* "absent", "off" or "on"; other_ai says that ai_harmony, walking_bass or
\* smart_dynamics was passed as True.
EnhGenerate(text, key_root, scale_type, style, humanize, other_ai) ==
    /\ ~Busy
    /\ ncalls' = ncalls + 1
    /\ decoded' = << >>
    /\ midi' = NoMidi
    /\ LET use_ai == (humanize = "on") \/ other_ai
       IN  call' = [IdleCall EXCEPT !.entry = IF use_ai THEN "ai" ELSE "enh", !.pc = "melody",
                       !.msg = text, !.root = key_root, !.scale = SCALES[scale_type],
                       !.scale_type = scale_type, !.style = style, !.use_ai = use_ai,
                       !.humanize = humanize, !.seq = text_to_morse(text),
                       !.morse = text_to_morse(text),
                       !.path = Path("ai_morse_", safe_text(text))]
    /\ upload' = "none"
    /\ UNCHANGED << salt, rng, restarts, files, log, other >>

\* one iteration of the melody loop of morse_to_enhanced_midi
EnhMelodyStep ==
    /\ call.entry = "enh" /\ call.pc = "melody"
    /\ call.i <= Len(call.seq)
    /\ LET symbol == call.seq[call.i]
           scale_notes == get_scale_notes(call.root, call.scale_type)
           low == SubSeq(scale_notes, 1, Min2(5, Len(scale_notes)))
           high == SubSeq(scale_notes, 4, Len(scale_notes))
           emit(pitch, d) ==
               [call EXCEPT !.i = @ + 1,
                    !.notes = Append(@, Note(pitch, call.time, d, 100, 0)),
                    !.writes = Append(@, AddNote("melody", melody_track, 0, pitch, call.time, d, 100)),
                    !.time = @ + d + DotDur]
       IN  CASE symbol = "." -> /\ rng' = Adv(rng)
                                /\ call' = emit(Choice(rng, low), DotDur)
             [] symbol = "-" -> /\ rng' = Adv(rng)
                                /\ call' = emit(Choice(rng, high), DotDur * 3)
             [] symbol = " " -> /\ rng' = rng
                                /\ call' = [call EXCEPT !.i = @ + 1, !.time = @ + (DotDur * 3)]
             [] symbol = "/" -> /\ rng' = rng
                                /\ call' = [call EXCEPT !.i = @ + 1, !.time = @ + (DotDur * 7)]
    /\ UNCHANGED << salt, ncalls, restarts, midi, files, decoded, log, upload, other >>

\* a melody note of the AI path: the pitch, the humanized values written to
\* the file, and how the pitch was reached
AiNote(pick, h, kind) ==
    [pitch |-> pick.note, start |-> h.time, dur |-> h.dur, vel |-> h.vel, ch |-> 0,
     kind |-> kind, opening |-> pick.opening, chromatic |-> pick.chromatic,
     adjusted |-> pick.adjusted, fired |-> pick.fired, candidate |-> pick.candidate,
     resolved |-> pick.resolved]

\* midi.addNote of a melody note or a phrase-ending note, melody_notes.append
\* of its nominal values, and the advance of time and phrase_position
AiEmit(pick, h, kind, nominal_duration, advance, phrase_pos) ==
    /\ rng' = h.rng
    /\ call' = [call EXCEPT !.i = @ + 1,
          !.hist = IF kind = "symbol" THEN pick.history ELSE @,
          !.notes = Append(@, AiNote(pick, h, kind)),
          !.writes = Append(@, AddNote("melody", melody_track, 0, pick.note, h.time, h.dur, h.vel)),
          !.nominal = Append(@, << pick.note, call.time, nominal_duration >>),
          !.time = @ + advance,
          !.phrase_pos = phrase_pos]

AiHumanized(pick, kind, nominal_duration, velocity, advance, phrase_pos) ==
    AiEmit(pick, apply_humanization(pick.rng, call.humanize, call.time, nominal_duration, velocity),
           kind, nominal_duration, advance, phrase_pos)

\* an ending note draws nothing before its humanization
EndingPick(p) ==
    [note |-> p, rng |-> rng, opening |-> FALSE, chromatic |-> FALSE, adjusted |-> FALSE,
     fired |-> "no", candidate |-> 0, resolved |-> 0]

\* one iteration of the melody loop of morse_to_ai_enhanced_midi
AiMelodyStep ==
    /\ call.entry = "ai" /\ call.pc = "melody"
    /\ call.i <= Len(call.seq)
    /\ CASE call.seq[call.i] = "." ->
              AiHumanized(choose_melodic_note(rng, call.hist, call.root, call.scale_type,
                                              call.style, ".", call.phrase_pos),
                          "symbol", DotDur, 100, DotDur + (DotDur \div 2), call.phrase_pos + 1)
         [] call.seq[call.i] = "-" ->
              AiHumanized(choose_melodic_note(rng, call.hist, call.root, call.scale_type,
                                              call.style, "-", call.phrase_pos),
                          "symbol", DotDur * 3, 100, (DotDur * 3) + (DotDur \div 2),
                          call.phrase_pos + 1)
         [] call.seq[call.i] = " " ->
              IF call.phrase_pos >= 3
              THEN AiHumanized(EndingPick(create_phrase_ending(call.hist, call.root)),
                               "ending", DotDur \div 2, 80, (DotDur \div 2) + ((DotDur * 5) \div 2), 0)
              ELSE /\ rng' = rng
                   /\ call' = [call EXCEPT !.i = @ + 1, !.time = @ + ((DotDur * 5) \div 2),
                                           !.phrase_pos = 0]
         [] call.seq[call.i] = "/" ->
              IF call.phrase_pos >= 2
              THEN AiHumanized(EndingPick(create_phrase_ending(call.hist, call.root)),
                               "ending", DotDur, 90, DotDur + (DotDur * 6), 0)
              ELSE /\ rng' = rng
                   /\ call' = [call EXCEPT !.i = @ + 1, !.time = @ + (DotDur * 6),
                                           !.phrase_pos = 0]
    /\ UNCHANGED << salt, ncalls, restarts, midi, files, decoded, log, upload, other >>

\* what happens when a WAV file is asked for: none of the soundfonts is on
\* disk, fluidsynth exits with status 0, with another status, runs into the
\* timeout of 30 seconds, or is not installed
RenderOutcomes == {"no_soundfont", "ok", "fluidsynth_error", "timeout", "no_fluidsynth"}

\* a rendering whose exceptions (TimeoutExpired, FileNotFoundError) are not
\* caught
wav_path_unguarded(render) ==
    IF render = "ok" THEN "wav_path"
    ELSE IF render \in {"timeout", "no_fluidsynth"} THEN "raised"
    ELSE None

\* midi_to_wav with a soundfont that is on disk: True when fluidsynth exits
\* with status 0; another status, TimeoutExpired and FileNotFoundError are
\* printed and give False
midi_to_wav(render) == render = "ok"

\* the wav_path generate_enhanced_files_from_text returns: the path when a
\* soundfont was found and midi_to_wav succeeded with it, else None
wav_path(render) ==
    IF render # "no_soundfont" /\ midi_to_wav(render) THEN "wav_path" ELSE None

\* midi.writeFile to the path of the call, the attempt to render a WAV file,
\* the return of (midi_path, wav_path, morse)
EnhStore(opt, x, writes, n, file) ==
    /\ rng' = x
    /\ call' = [call EXCEPT !.pc = IF wav_path(opt.render) = "raised" THEN "error" ELSE "done",
                            !.opt = opt, !.writes = writes, !.ntracks = n,
                            !.wav = wav_path(opt.render)]
    /\ midi' = file
    /\ files' = (call.path :> file) @@ files
    /\ log' = Append(log, LogEntry(call))

EnhWrite(opt, x, writes, n) == EnhStore(opt, x, writes, n, WriteFile(TracksOf(writes, n)))

EnhAccompany(opt, acc) ==
    EnhWrite(opt, acc.rng, call.writes \o acc.writes,
             num_tracks(opt.add_harmony, opt.add_bass, opt.add_drums))

\* the rest of the call: the accompaniment, then the file
EnhFinish(opt) ==
    /\ call.entry \in {"enh", "ai"} /\ call.pc = "melody"
    /\ call.i > Len(call.seq)
    /\ EnhAccompany(opt,
          IF call.entry = "ai" THEN AiAccompaniment(rng, call, opt)
          ELSE [writes |-> EnhAccompaniment(call.root, opt.chord_progression, call.time,
                                            opt.add_harmony, opt.add_bass, opt.add_drums),
                rng |-> rng])
    /\ UNCHANGED << salt, ncalls, restarts, decoded, upload, other >>

\* ------------------------------- morse_music.py: generate_files_from_text
BasicGenerate(text) ==
    /\ ~Busy
    /\ ncalls' = ncalls + 1
    /\ decoded' = << >>
    /\ midi' = NoMidi
    /\ call' = [IdleCall EXCEPT !.entry = "basic", !.pc = "melody", !.msg = text, !.root = 60,
                   !.seq = text_to_morse(text), !.morse = text_to_morse(text),
                   !.path = Path("cody_musical_message", << >>)]
    /\ upload' = "none"
    /\ UNCHANGED << salt, rng, restarts, files, log, other >>

\* one iteration of the loop of morse_to_midi
BasicMelodyStep ==
    /\ call.entry = "basic" /\ call.pc = "melody"
    /\ call.i <= Len(call.seq)
    /\ LET symbol == call.seq[call.i]
           emit(pitch, d) ==
               [call EXCEPT !.i = @ + 1,
                    !.notes = Append(@, Note(pitch, call.time, d, 100, 0)),
                    !.writes = Append(@, AddNote("melody", 0, 0, pitch, call.time, d, 100)),
                    !.time = @ + d + DotDur]
       IN  CASE symbol = "." -> /\ rng' = Adv(rng)
                                /\ call' = emit(call.root + Choice(rng, << -2, 0, 2 >>), DotDur)
             [] symbol = "-" -> /\ rng' = Adv(rng)
                                /\ call' = emit(call.root + Choice(rng, << -5, 0, 5 >>), DotDur * 3)
             [] symbol = " " -> /\ rng' = rng
                                /\ call' = [call EXCEPT !.i = @ + 1, !.time = @ + (DotDur * 3)]
             [] symbol = "/" -> /\ rng' = rng
                                /\ call' = [call EXCEPT !.i = @ + 1, !.time = @ + (DotDur * 7)]
    /\ UNCHANGED << salt, ncalls, restarts, midi, files, decoded, log, upload, other >>

\* the file is written; no soundfont is passed, so no WAV file is made
BasicFinish ==
    /\ call.entry = "basic" /\ call.pc = "melody"
    /\ call.i > Len(call.seq)
    /\ LET file == WriteFile(TracksOf(call.writes, 1))
       IN  /\ call' = [call EXCEPT !.pc = "done", !.ntracks = 1]
           /\ midi' = file
           /\ files' = (call.path :> file) @@ files
           /\ log' = Append(log, LogEntry(call))
    /\ UNCHANGED << salt, rng, ncalls, restarts, decoded, upload, other >>

\* ------------------------------------------------------------ the process
\* the interpreter is started again: a new hash salt, a generator seeded
\* from the operating system, an empty session; the files stay on disk
Restart ==
    /\ ~Busy
    /\ restarts < MaxRestarts
    /\ restarts' = restarts + 1
    /\ salt' \in 0..NumSalts
    /\ rng' \in {EntropyState(k) : k \in 0..NumEntropy}
    /\ ncalls' = 0
    /\ call' = IdleCall
    /\ midi' = NoMidi
    /\ decoded' = << >>
    /\ upload' = "none"
    /\ other' = IdleCall
    /\ UNCHANGED << files, log >>

\* the interpreter hands the processor to the thread of another session: the
\* call in progress is set aside (and marked as interleaved, mixed) and the
\* other thread's call runs on.  The generator of the random module is the
\* same for both.
Switch ==
    /\ call # other
    /\ call' = other
    /\ other' = [call EXCEPT !.mixed = @ \/ Busy]
    /\ UNCHANGED << salt, rng, ncalls, restarts, midi, files, decoded, log, upload >>

\* -------------------------------------------------------- the Decode tab
\* the Decode button on a file the user uploads in a fresh session
DecodeFile(file) ==
    /\ call.pc = "idle"
    /\ decoded = << >>
    /\ midi' = file
    /\ decoded' = << decode_midi_bytes(TRUE, file) >>
    /\ upload' = "midi"
    /\ UNCHANGED << salt, rng, ncalls, restarts, call, files, log, other >>

\* the Decode button on an upload that is no MIDI file
DecodeGarbage ==
    /\ call.pc = "idle"
    /\ decoded = << >>
    /\ midi' = NoMidi
    /\ decoded' = << decode_midi_bytes(FALSE, NoMidi) >>
    /\ upload' = "garbage"
    /\ UNCHANGED << salt, rng, ncalls, restarts, call, files, log, other >>

\* ------------------------------------------------------------ input sets
RECURSIVE SeqsUpTo(_, _)
SeqsUpTo(A, n) ==
    IF n = 0 THEN {<< >>}
    ELSE LET shorter == SeqsUpTo(A, n - 1)
         IN  shorter \cup {Append(q, a) : q \in shorter, a \in A}

\* messages for the app: every text of up to MaxLen characters over E, T and
\* the space, a few texts with lower-case and unsupported characters, and a
\* text whose melody lasts longer than four chords
Messages ==
    SeqsUpTo({"E", "T", " "}, MaxLen)
        \cup {<< "e", "t" >>, << "a" >>, << "E", "!" >>, << "!" >>, << "0", " ", "0" >>}

\* messages for the library entry points: the shorter texts, SOS, and a text
\* whose melody lasts longer than four chords
SOS == << "S", "O", "S" >>

LibMessages ==
    SeqsUpTo({"E", "T", " "}, MaxLen - 1) \cup {SOS, << "e", "!", "T" >>, << "0", "0" >>}

\* every letter, in upper and in lower case, and every digit, as a message
SingleChars ==
    {<< MorseOrder[k] >> : k \in 1..36} \cup {<< LowerLetters[k] >> : k \in 1..26}

\* messages tried under every tonal setting
TonalMessages == {<< "T" >>, << "E", "T" >>, << "T", " ", "E" >>}

\* << message, key, style, regenerate >> of the Generate button: every message
\* and every single character in C major / folk, and the tonal messages in
\* every key and style, with and without "Generate Different Version"
AppRequests ==
    ((Messages \cup SingleChars) \X {"C_MAJOR"} \X {"FOLK"} \X {FALSE})
        \cup (TonalMessages \X MusicKeys \X MusicStyles \X BOOLEAN)

\* key roots explored, out of KEY_PRESETS (60..71)
KeyRoots == {60, 71}

\* << humanize, other_ai >>: the plain path, and the AI path with humanize
\* passed as False, not passed, and passed as True
Modes == {<< "absent", FALSE >>, << "off", TRUE >>, << "absent", TRUE >>, << "on", FALSE >>}

\* << text, key_root, scale_type, style, mode >> of
\* generate_enhanced_files_from_text: every message in C major / folk, and the
\* tonal messages and SOS in every scale and style on the key roots explored
LibRequests ==
    (LibMessages \X {60} \X {"major"} \X {"folk"} \X Modes)
        \cup ((TonalMessages \cup {SOS}) \X KeyRoots \X ScaleTypes \X AiStyles \X Modes)

\* accompaniment and rendering options: eight sets that cover every
\* combination of the three add_* flags and every value of the other options
OptionSet(j) ==
    [add_harmony |-> j % 2 = 1, add_bass |-> (j \div 2) % 2 = 1, add_drums |-> (j \div 4) % 2 = 1,
     chord_progression |-> << "classic", "pop", "folk", "minor", "jazz", "blues" >>[1 + (j % 6)],
     ai_harmony |-> << "absent", "off", "on" >>[1 + (j % 3)],
     walking_bass |-> << "absent", "off", "on" >>[1 + ((j + 1) % 3)],
     render |-> << "no_soundfont", "ok", "fluidsynth_error", "timeout", "no_fluidsynth" >>[1 + (j % 5)]]

OptionSets == {OptionSet(j) : j \in 0..7}

\* files a user may upload that no encoder of this program wrote: no track,
\* tracks without notes, one note, a note-off without its note-on, a note-on
\* never closed, two notes, an empty first track before a track with notes
\* seven equal notes in a row, which spell no letter
NonMorseFile ==
    << [k \in 1..14 |->
           Event(IF k % 2 = 1 THEN "on" ELSE "off",
                 (((k - 1) \div 2) * 120) + (IF k % 2 = 1 THEN 0 ELSE 100), 60)] >>

\* two short notes and one ten times as long
LongNoteFile ==
    << << Event("on", 0, 60), Event("off", 240, 60), Event("on", 480, 62), Event("off", 720, 62),
          Event("on", 960, 64), Event("off", 3360, 64) >> >>

\* four equal notes of 240 ticks, the first after a silence of 1000 ticks:
\* the silences between them last 720 ticks (3 times the duration), 360
\* ticks (1.5 times) and 721 ticks
BoundaryGapFile ==
    << << Event("on", 1000, 60), Event("off", 1240, 60), Event("on", 1960, 60),
          Event("off", 2200, 60), Event("on", 2560, 60), Event("off", 2800, 60),
          Event("on", 3521, 60), Event("off", 3761, 60) >> >>

\* two notes whose note-off comes at the tick of their note-on, and a third
\* of 240 ticks, 240 ticks apart
ZeroLengthFile ==
    << << Event("on", 0, 60), Event("off", 0, 60), Event("on", 240, 60), Event("off", 240, 60),
          Event("on", 480, 60), Event("off", 720, 60) >> >>

ForeignFiles ==
    { << >>,
      NonMorseFile,
      LongNoteFile,
      BoundaryGapFile,
      ZeroLengthFile,
      << << >> >>,
      << << >>, << Event("on", 0, 60), Event("off", 240, 60) >> >>,
      << << Event("off", 100, 60) >> >>,
      << << Event("on", 0, 60) >> >>,
      << << Event("on", 0, 60), Event("off", 240, 60), Event("on", 336, 62), Event("off", 1056, 62) >> >>,
      << << Event("on", 0, 60), Event("off", 240, 60) >>,
         << Event("on", 0, 48), Event("off", 240, 48), Event("on", 480, 48), Event("off", 720, 48) >> >>,
      << << Event("on", 0, 60), Event("on", 100, 62), Event("off", 240, 60) >>,
         << Event("on", 0, 48), Event("off", 240, 48) >> >> }

\* ------------------------------------------------------------ specification
\* Spec: one encode call, or one decode of an uploaded file, in a fresh
\* process, followed by the decode of the file the call produced
Steps ==
    \/ AppMelodyStep
    \/ \E h \in BOOLEAN : AppFinish(h)
    \/ EnhMelodyStep
    \/ AiMelodyStep
    \/ \E opt \in OptionSets : EnhFinish(opt)
    \/ BasicMelodyStep
    \/ BasicFinish
    \/ DecodeUpload

Next ==
    \/ \E q \in AppRequests : ncalls = 0 /\ AppGenerate(q[1], q[2], q[3], q[4])
    \/ \E q \in LibRequests :
          ncalls = 0 /\ EnhGenerate(q[1], q[2], q[3], q[4], q[5][1], q[5][2])
    \/ \E t \in LibMessages \cup SingleChars : ncalls = 0 /\ BasicGenerate(t)
    \/ \E f \in ForeignFiles : ncalls = 0 /\ DecodeFile(f)
    \/ ncalls = 0 /\ DecodeGarbage
    \/ Steps

Spec == Init /\ [][Next]_vars

\* SpecSeq: several encode calls in one process and across restarts of the
\* process, of a message and of the same message with an unsupported
\* character in it, with the accompaniment options fixed
SeqMessage == << "E", "T" >>

SeqMessages == {SeqMessage, << "E", "!", "T" >>}

NextSeq ==
    \/ \E m \in SeqMessages : ncalls < MaxCalls /\ AppGenerate(m, "C_MAJOR", "FOLK", FALSE)
    \/ \E m \in SeqMessages, md \in {<< "absent", FALSE >>, << "off", TRUE >>} :
          ncalls < MaxCalls /\ EnhGenerate(m, 60, "major", "folk", md[1], md[2])
    \/ \E m \in SeqMessages : ncalls < MaxCalls /\ BasicGenerate(m)
    \/ AppMelodyStep
    \/ AppFinish(FALSE)
    \/ EnhMelodyStep
    \/ AiMelodyStep
    \/ EnhFinish(OptionSet(1))
    \/ BasicMelodyStep
    \/ BasicFinish
    \/ Restart

SpecSeq == Init /\ [][NextSeq]_vars

\* SpecConc: Generate handlers of two sessions in two threads of one
\* process, for different messages when both are in progress; up to
\* MaxCalls + 1 calls, so that a call can run alone and again interleaved
ConcMessages == {<< "E", "T" >>, << "T", "E" >>}

NextConc ==
    \/ \E m \in ConcMessages :
          /\ ncalls < MaxCalls + 1
          /\ other.pc = "melody" => other.msg # m
          /\ AppGenerate(m, "C_MAJOR", "FOLK", FALSE)
    \/ AppMelodyStep
    \/ AppFinish(FALSE)
    \/ Switch

SpecConc == Init /\ [][NextConc]_vars

\* SpecEngine: _choose_note_intelligently on its own, called by the loop of
\* generate_melody on a generator whose recent_notes holds three pitches of
\* the scale, in several states of the random generator
EngineHistories ==
    LET pitches == {55, 60, 62, 64, 72}
    IN  {<< a, b, c >> : a \in pitches, b \in pitches, c \in pitches}

InitEngine ==
    /\ salt = 0
    /\ rng \in {SeedState(k * 9001) : k \in 0..NumSeeds}
    /\ ncalls = 1
    /\ restarts = 0
    /\ \E m \in {<< "A" >>, << "N" >>}, style \in {"FOLK", "JAZZ"}, h \in EngineHistories :
          call = [IdleCall EXCEPT !.entry = "app", !.pc = "melody", !.msg = m,
                      !.key = "C_MAJOR", !.root = KeyRootOf["C_MAJOR"],
                      !.scale = KeyScaleOf["C_MAJOR"], !.style = style,
                      !.seq = morse_sequence(m), !.hist = h]
    /\ midi = NoMidi
    /\ files = NoFiles
    /\ decoded = << >>
    /\ log = << >>
    /\ upload = "none"
    /\ other = IdleCall

NextEngine == AppMelodyStep

SpecEngine == InitEngine /\ [][NextEngine]_vars

\* ------------------------------------------------------------- properties
\* a message of supported characters: letters and digits, with single spaces
\* between words
Supported(message) ==
    /\ message # << >>
    /\ \A k \in 1..Len(message) : IsAlnum(message[k]) \/ message[k] = " "
    /\ message[1] # " " /\ message[Len(message)] # " "
    /\ \A k \in 1..(Len(message) - 1) : ~(message[k] = " " /\ message[k + 1] = " ")

MelodyWrites(writes) == SelectSeq(writes, LAMBDA w : w.role = "melody")

\* what a melody note or a write says of the note: pitch, start, duration,
\* velocity
Sounding(q) ==
    [k \in 1..Len(q) |-> << q[k].pitch, q[k].start, q[k].dur, q[k].vel >>]

\* C1: once the file of an app encode of a message of supported characters
\* has been decoded, the decoded text is the message in upper case and holds
\* no '?'.
C1_RoundTrip ==
    (call.entry = "app" /\ call.pc = "done" /\ Supported(call.msg) /\ decoded # << >>)
        => /\ decoded[1].text = Upper(call.msg)
           /\ CountOf(decoded[1].text, "?") = 0

\* C2: the encode of "SOS" in C major (key root 60), style folk, has the
\* Morse string "... --- ...", and the decode of its file returns the text
\* "SOS" with every character resolved.
C2_SOS ==
    (call.entry = "enh" /\ call.pc = "done" /\ call.msg = SOS /\ call.root = 60
        /\ call.scale_type = "major" /\ call.style = "folk")
        => /\ call.morse = << ".", ".", ".", " ", "-", "-", "-", " ", ".", ".", "." >>
           /\ decoded # << >> =>
                /\ decoded[1].text = SOS
                /\ decoded[1].confidence.num = 100 * decoded[1].confidence.den

\* two finished calls were given the same request
SameRequest(a, b) == [a EXCEPT !.notes = << >>] = [b EXCEPT !.notes = << >>]

\* C3: two finished encodes of the same request, regenerate off, have the
\* same melody notes, in one process and across restarts.
C3_Deterministic ==
    \A i, j \in 1..Len(log) :
        (SameRequest(log[i], log[j]) /\ ~log[i].regen) => log[i].notes = log[j].notes

NonOverlapping(notes) ==
    \A k \in 1..(Len(notes) - 1) :
        /\ notes[k].start < notes[k + 1].start
        /\ notes[k].start + notes[k].dur <= notes[k + 1].start

\* C4: the melody notes of a call of generate_melody or of
\* morse_to_ai_enhanced_midi, as written so far, start in increasing order
\* and none lasts beyond the start of the next.
C4_NonOverlap == call.entry \in {"app", "ai"} => NonOverlapping(call.notes)

\* a humanized melody with a phrase-ending note, where two notes in a row
\* are closer than the nominal rest less 0.03 beat
C4_Witness ==
    /\ call.entry = "ai" /\ call.pc = "done" /\ call.humanize # "off"
    /\ \E k \in 1..Len(call.notes) : call.notes[k].kind = "ending"
    /\ \E k \in 1..(Len(call.notes) - 1) :
          call.notes[k + 1].start - (call.notes[k].start + call.notes[k].dur)
              < (DotDur \div 2) - 240

\* C5: every pitch of the melody of generate_melody is in the generator's
\* scale_notes.
C5_AppScale ==
    call.entry = "app" =>
        \A k \in 1..Len(call.notes) :
            call.notes[k].pitch \in SeqRange(_generate_scale_notes(call.root, call.scale))

\* a finished jazz melody in a minor key with two different pitches
C5_Witness ==
    /\ call.entry = "app" /\ call.pc = "done" /\ call.style = "JAZZ"
    /\ call.scale = << 0, 2, 3, 5, 7, 8, 10 >>
    /\ Len(call.notes) >= 2
    /\ call.notes[1].pitch # call.notes[2].pitch

\* C6: every pitch choose_melodic_note returned is in the extended scale,
\* unless ensure_scale_membership took its chromatic branch for that note.
C6_AiScale ==
    call.entry = "ai" =>
        \A k \in 1..Len(call.notes) :
            (call.notes[k].kind = "symbol" /\ ~call.notes[k].chromatic)
                => call.notes[k].pitch
                       \in SeqRange(create_extended_scale(call.root, call.scale_type))

\* the tracks of the enabled roles lie in 1..num_tracks-1 and differ
LayoutOk(h, b, d) ==
    LET n == num_tracks(h, b, d)
        on == << h, b, d >>
        track == << harmony_track(h), bass_track(h, b), drum_track(h, b, d) >>
    IN  /\ \A r \in 1..3 : IF on[r] THEN track[r] \in 1..(n - 1) ELSE track[r] = -1
        /\ \A r, q \in 1..3 : (on[r] /\ on[q] /\ r # q) => track[r] # track[q]

\* C7: for every combination of add_harmony, add_bass and add_drums the
\* tracks of the enabled roles lie in 1..num_tracks-1 and differ; in a
\* finished call the melody notes, and only they, are on track 0, every other
\* write is on a track in 1..num_tracks-1, writes of different roles are on
\* different tracks, and the melody on track 0 is the melody generated.
C7_Tracks ==
    /\ melody_track = 0
    /\ \A h, b, d \in BOOLEAN : LayoutOk(h, b, d)
    /\ call.pc = "done" =>
          /\ \A k \in 1..Len(call.writes) :
                IF call.writes[k].role = "melody" THEN call.writes[k].track = 0
                ELSE call.writes[k].track \in 1..(call.ntracks - 1)
          /\ \A k, j \in 1..Len(call.writes) :
                call.writes[k].role # call.writes[j].role
                    => call.writes[k].track # call.writes[j].track
          /\ Sounding(MelodyWrites(call.writes)) = Sounding(call.notes)

\* a finished call with harmony, bass and drums, each with notes written
C7_Witness ==
    /\ call.pc = "done" /\ call.ntracks = 4
    /\ Len(MelodyWrites(call.writes)) >= 2
    /\ \A r \in {"harmony", "bass", "drums"} :
          \E k \in 1..Len(call.writes) : call.writes[k].role = r

\* the tracks of a file up to the first one that yields notes
UpToFirstNotes(file) ==
    LET k == CHOOSE k \in 1..Len(file) :
                 /\ PairEvents(file[k], EmptyActive, << >>) # << >>
                 /\ \A j \in 1..(k - 1) : PairEvents(file[j], EmptyActive, << >>) = << >>
    IN  SubSeq(file, 1, k)

HasNotes(file) == \E k \in 1..Len(file) : PairEvents(file[k], EmptyActive, << >>) # << >>

\* C8: the result of decoding a file is the result of decoding the file cut
\* after its first track with notes; in the file of a finished encode with a
\* melody that track is the melody track.
C8_MelodyOnly ==
    /\ (decoded # << >> /\ HasNotes(midi))
          => decoded[1] = decode_midi_to_morse(UpToFirstNotes(midi))
    /\ (call.pc = "done" /\ call.notes # << >>)
          => UpToFirstNotes(midi) = WriteFile(<< TrackOf(call.writes, melody_track) >>)

\* a decoded file with a melody of several notes followed by three
\* accompaniment tracks that hold notes
C8_Witness ==
    /\ decoded # << >> /\ call.pc = "done" /\ Len(midi) = 5
    /\ \A k \in 2..5 : midi[k] # << >>
    /\ decoded[1].morse # << >>

\* C9: a call with an empty or whitespace-only message generates no melody
\* note and writes no MIDI file.
C9_BlankRejected ==
    (call.entry # "none" /\ Strip(call.msg) = << >>)
        => /\ call.notes = << >>
           /\ midi = NoMidi
           /\ call.path \notin DOMAIN files

\* C10: a decode of a file with fewer than two notes returns an empty Morse
\* string, confidence 0, and the no-notes or the not-enough-notes message.
C10_FewNotes ==
    (decoded # << >> /\ upload = "midi" /\ Len(ExtractNotes(midi)) < 2)
        => /\ decoded[1].morse = << >>
           /\ decoded[1].confidence = ZeroConfidence
           /\ decoded[1].text = IF ExtractNotes(midi) = << >>
                                THEN Diagnostic("No notes found in MIDI file")
                                ELSE Diagnostic("Not enough notes to analyze")

\* a decode of a file whose first track with notes has exactly one
C10_Witness ==
    /\ decoded # << >>
    /\ Len(ExtractNotes(midi)) = 1
    /\ decoded[1].text = Diagnostic("Not enough notes to analyze")

\* C11: whatever was uploaded, the decode returns a (morse, text, confidence)
\* triple; confidence is 0 and the Morse string empty when the bytes are no
\* MIDI file (the text then is the error message) and when fewer than two
\* notes were found.  Note-offs without a note-on and note-ons never closed
\* are skipped.
C11_NeverRaises ==
    decoded # << >> =>
        /\ DOMAIN decoded[1] = {"morse", "text", "confidence"}
        /\ upload \in {"midi", "garbage"}
        /\ (upload = "garbage" \/ Len(ExtractNotes(midi)) < 2)
              => /\ decoded[1].confidence = ZeroConfidence
                 /\ decoded[1].morse = << >>
        /\ upload = "garbage" => decoded[1].text = Diagnostic("Error decoding MIDI")

\* a decode of bytes that are no MIDI file has returned
C11_Witness ==
    /\ upload = "garbage"
    /\ decoded # << >>
    /\ decoded[1].text = Diagnostic("Error decoding MIDI")

\* the characters a decode result holds: the non-space characters of its
\* text, none when it is a diagnostic (which comes with an empty Morse string)
DecodedChars(r) == IF r.morse = << >> THEN 0 ELSE Len(r.text) - CountOf(r.text, " ")

DropUnsupported(text) == SelectSeq(text, LAMBDA c : UpperChar(c) \in DOMAIN MORSE_CODE)

\* start time and duration of every note
Timing(notes) == [k \in 1..Len(notes) |-> << notes[k].start, notes[k].dur >>]

\* two finished calls differ at most in their message
SameSettings(a, b) ==
    [a EXCEPT !.msg = << >>, !.seq = << >>, !.notes = << >>]
        = [b EXCEPT !.msg = << >>, !.seq = << >>, !.notes = << >>]

\* C13: of two finished calls of generate_melody, of morse_to_enhanced_midi
\* or of morse_to_midi with the same settings, one for a message and one for
\* the message without its unsupported characters, the Morse expansions are
\* equal and the melody notes have the same start times and durations.
C13_Dropped ==
    \A i, j \in 1..Len(log) :
        (/\ log[i].entry \in {"app", "enh", "basic"}
         /\ SameSettings(log[i], log[j])
         /\ log[j].msg = DropUnsupported(log[i].msg))
            => /\ log[i].seq = log[j].seq
               /\ Timing(log[i].notes) = Timing(log[j].notes)

\* the pattern an encode call expanded a message of one character to (the
\* expansion of generate_melody ends with a letter separator)
PatternOf(c) == IF c.entry = "app" THEN SubSeq(c.seq, 1, Len(c.seq) - 1) ELSE c.seq

\* C14: each of the 26 letters and 10 digits has a non-empty pattern of dots
\* and dashes, no two of them have the same pattern, and the pattern an
\* encoder expands a letter (of either case) or digit to is looked up by the
\* decoder as that character, in upper case.
C14_Bidirectional ==
    /\ \A a, b \in 1..36 :
          /\ MORSE_CODE[MorseOrder[a]] # << >>
          /\ SeqRange(MORSE_CODE[MorseOrder[a]]) \subseteq {".", "-"}
          /\ a # b => MORSE_CODE[MorseOrder[a]] # MORSE_CODE[MorseOrder[b]]
    /\ (call.entry # "none" /\ Len(call.msg) = 1 /\ IsAlnum(call.msg[1]))
          => /\ PatternOf(call) # << >>
             /\ LookupLetter(PatternOf(call)) = UpperChar(call.msg[1])

\* a finished call of morse_to_midi for a lower-case letter of four symbols
C14_Witness ==
    /\ call.entry = "basic" /\ call.pc = "done"
    /\ call.msg = << "q" >>
    /\ Len(call.notes) = 4
    /\ LookupLetter(call.seq) = "Q"

\* the positions of the dots and dashes in a Morse expansion
SymbolPositions(seq) ==
    SelectSeq([k \in 1..Len(seq) |-> k], LAMBDA k : seq[k] \in {".", "-"})

\* the n-th melody note of a call stands for a dot or a dash (it is no
\* phrase-ending note)
IsSymbolNote(c, n) == c.entry # "ai" \/ c.notes[n].kind = "symbol"

\* the position in the Morse expansion of the symbol behind the n-th note
PositionOf(c, n) ==
    SymbolPositions(c.seq)[Cardinality({m \in 1..n : IsSymbolNote(c, m)})]

\* the separators between the symbols behind the n-th note and the next
SeparatorsAfter(c, n) ==
    {c.seq[i] : i \in (PositionOf(c, n) + 1)..(PositionOf(c, n + 1) - 1)}

\* the silence from the end of the n-th note to the start of the next
SilenceAfter(c, n) == c.notes[n + 1].start - (c.notes[n].start + c.notes[n].dur)

\* C15: in the melody of morse_to_midi, of generate_melody and of
\* morse_to_ai_enhanced_midi without humanization, a dot lasts one unit
\* (DotDur) and a dash three, and the silence between two notes in a row that
\* stand for symbols is 1 unit inside a letter, 2.5 to 3 units between
\* letters and 6 to 7 units between words.
C15_Ratios ==
    (call.entry \in {"basic", "app"} \/ (call.entry = "ai" /\ call.humanize = "off")) =>
        /\ \A n \in 1..Len(call.notes) :
              IsSymbolNote(call, n) =>
                  call.notes[n].dur
                      = IF call.seq[PositionOf(call, n)] = "." THEN DotDur ELSE 3 * DotDur
        /\ \A n \in 1..(Len(call.notes) - 1) :
              (IsSymbolNote(call, n) /\ IsSymbolNote(call, n + 1)) =>
                  IF SeparatorsAfter(call, n) = {}
                  THEN SilenceAfter(call, n) = DotDur
                  ELSE IF "/" \in SeparatorsAfter(call, n)
                  THEN /\ 6 * DotDur <= SilenceAfter(call, n)
                       /\ SilenceAfter(call, n) <= 7 * DotDur
                  ELSE /\ 5 * DotDur <= 2 * SilenceAfter(call, n)
                       /\ SilenceAfter(call, n) <= 3 * DotDur

\* C16: a call of generate_enhanced_files_from_text whose WAV rendering did
\* not succeed has returned: the MIDI file is on disk at the path returned,
\* the Morse string is that of the text, and the WAV result is None.
C16_RenderNonFatal ==
    (call.entry \in {"enh", "ai"} /\ call.pc \in {"done", "error"} /\ call.opt.render # "ok")
        => /\ call.pc = "done"
           /\ call.wav = None
           /\ call.path \in DOMAIN files
           /\ files[call.path] = midi
           /\ midi = WriteFile(TracksOf(call.writes, call.ntracks))
           /\ call.morse = text_to_morse(call.msg)

\* a finished AI call with accompaniment whose rendering ran into the timeout
C16_Witness ==
    /\ call.entry = "ai" /\ call.pc = "done"
    /\ call.opt.render = "timeout"
    /\ call.wav = None
    /\ call.notes # << >>
    /\ call.path \in DOMAIN files

\* two finished calls were given the same request, interleaved or not
SameCall(a, b) ==
    [a EXCEPT !.notes = << >>, !.mixed = FALSE] = [b EXCEPT !.notes = << >>, !.mixed = FALSE]

\* C17: a finished encode call that was interleaved with a call for another
\* message has the melody notes of the same request run alone.
C17_NoInterference ==
    \A i, j \in 1..Len(log) :
        (log[i].mixed /\ ~log[j].mixed /\ SameCall(log[i], log[j]))
            => log[i].notes = log[j].notes

\* C18: every melody note an encoder has emitted starts at 0 or later, lasts
\* longer than 0, has a velocity in 1..127 and a pitch in 0..127; a pitch of
\* MelodicAI other than the opening one lies in key_root - 12 .. key_root + 19.
C18_WellFormed ==
    \A k \in 1..Len(call.notes) :
        /\ call.notes[k].start >= 0
        /\ call.notes[k].dur > 0
        /\ call.notes[k].vel \in 1..127
        /\ call.notes[k].pitch \in 0..127
        /\ (call.entry = "ai" /\ ~call.notes[k].opening)
              => call.notes[k].pitch \in (call.root - 12)..(call.root + 19)

\* a finished humanized AI melody on key root 71 in which a tendency tone
\* was resolved and a note starts before its nominal time
C18_Witness ==
    /\ call.entry = "ai" /\ call.pc = "done" /\ call.root = 71 /\ call.humanize # "off"
    /\ \E k \in 1..Len(call.notes) : call.notes[k].fired # "no"
    /\ \E k \in 1..Len(call.notes) : call.notes[k].start < call.nominal[k][2]

\* the notes the decoder analyses: those of the first track with notes, by
\* start time
Analysed(file) == SortByStart(ExtractNotes(file))

\* the least duration among notes
MinDuration(notes) ==
    CHOOSE d \in {notes[k][2] : k \in 1..Len(notes)} :
        \A k \in 1..Len(notes) : d <= notes[k][2]

\* C19: when a decode analyses two notes or more, the threshold it
\* classifies with is the least duration among them, and the Morse string
\* it returns is the one that threshold gives.
C19_MinUnit ==
    (decoded # << >> /\ upload = "midi" /\ Len(ExtractNotes(midi)) >= 2)
        => /\ dot_threshold(Analysed(midi)) = MinDuration(Analysed(midi))
           /\ decoded[1].morse
                  = ToSymbols(Analysed(midi), MinDuration(Analysed(midi)), << >>, 0)

\* the dots, dashes and unknowns of a Morse string, without the separators
NoteSymbols(morse) == SelectSeq(morse, LAMBDA y : y \notin {" ", "/"})

\* C20: the decode gives every note analysed one symbol: a dot when the note
\* lasts at most twice the unit duration, a dash when it lasts longer than
\* that and at most 4.5 times the unit duration, and '?' when it lasts
\* longer still.
C20_ThreeClasses ==
    (decoded # << >> /\ upload = "midi" /\ Len(ExtractNotes(midi)) >= 2)
        => /\ Len(NoteSymbols(decoded[1].morse)) = Len(Analysed(midi))
           /\ \A k \in 1..Len(Analysed(midi)) :
                 NoteSymbols(decoded[1].morse)[k]
                     = IF Analysed(midi)[k][2] <= 2 * dot_threshold(Analysed(midi)) THEN "."
                       ELSE IF 2 * Analysed(midi)[k][2] <= 9 * dot_threshold(Analysed(midi))
                       THEN "-"
                       ELSE "?"

\* the separators a Morse string holds between its n-th dot or dash and the
\* next
SeparatorsBetween(morse, n) ==
    SubSeq(morse, SymbolPositions(morse)[n] + 1, SymbolPositions(morse)[n + 1] - 1)

\* the gap from the end of the n-th note analysed to the start of the next
GapAfter(notes, n) == notes[n + 1][1] - (notes[n][1] + notes[n][2])

\* C21 as stated: between the symbols of two notes in a row the decode puts
\* one word separator when the gap is at or above the word threshold (3 times
\* the dot threshold), one letter separator when it is below that and at or
\* above the letter threshold (1.5 times the dot threshold), and nothing
\* otherwise; the word threshold is greater than the letter threshold.
C21_AtOrAbove ==
    (decoded # << >> /\ upload = "midi" /\ Len(ExtractNotes(midi)) >= 2)
        => /\ Len(SymbolPositions(decoded[1].morse)) = Len(Analysed(midi))
           /\ \A n \in 1..(Len(Analysed(midi)) - 1) :
                 SeparatorsBetween(decoded[1].morse, n)
                     = IF GapAfter(Analysed(midi), n) >= 3 * dot_threshold(Analysed(midi))
                       THEN << "/" >>
                       ELSE IF 2 * GapAfter(Analysed(midi), n) >= 3 * dot_threshold(Analysed(midi))
                       THEN << " " >>
                       ELSE << >>
           /\ 2 * 3 * dot_threshold(Analysed(midi)) > 3 * dot_threshold(Analysed(midi))

\* C21 as amended: between the symbols of two notes in a row the decode puts
\* one word separator when the gap is greater than 3 times the dot threshold,
\* one letter separator when it is at most that and greater than 1.5 times
\* the dot threshold, and nothing otherwise; the word threshold is greater
\* than the letter threshold when the dot threshold is positive.
C21_Segmentation ==
    (decoded # << >> /\ upload = "midi" /\ Len(ExtractNotes(midi)) >= 2)
        => /\ Len(SymbolPositions(decoded[1].morse)) = Len(Analysed(midi))
           /\ \A n \in 1..(Len(Analysed(midi)) - 1) :
                 SeparatorsBetween(decoded[1].morse, n)
                     = IF GapAfter(Analysed(midi), n) > 3 * dot_threshold(Analysed(midi))
                       THEN << "/" >>
                       ELSE IF 2 * GapAfter(Analysed(midi), n) > 3 * dot_threshold(Analysed(midi))
                       THEN << " " >>
                       ELSE << >>
           /\ dot_threshold(Analysed(midi)) > 0
                 => 2 * 3 * dot_threshold(Analysed(midi)) > 3 * dot_threshold(Analysed(midi))

\* a decode of notes with a gap of exactly 3 times the dot threshold, decoded
\* as a letter gap, one of exactly 1.5 times, decoded as no gap, and one
\* decoded as a word gap
C21_Witness ==
    /\ decoded # << >> /\ upload = "midi" /\ Len(Analysed(midi)) = 4
    /\ GapAfter(Analysed(midi), 1) = 3 * dot_threshold(Analysed(midi))
    /\ 2 * GapAfter(Analysed(midi), 2) = 3 * dot_threshold(Analysed(midi))
    /\ decoded[1].morse = << ".", " ", ".", ".", "/", "." >>

\* C22: the melody track a finished call of morse_to_ai_enhanced_midi wrote
\* holds one note for each dot and dash of the Morse string, in order, a dot
\* lasting the dot duration and a dash the dash duration; no note is written
\* for a letter or word boundary.  Stated for the calls with humanize passed
\* as False, whose notes are written with their nominal durations.
C22_OneNotePerSymbol ==
    (call.entry = "ai" /\ call.pc = "done" /\ call.humanize = "off")
        => /\ Len(MelodyWrites(call.writes)) = Len(SymbolPositions(call.morse))
           /\ \A k \in 1..Len(SymbolPositions(call.morse)) :
                 MelodyWrites(call.writes)[k].dur
                     = IF call.morse[SymbolPositions(call.morse)[k]] = "." THEN DotDur
                       ELSE DashDur
           /\ \A k \in 1..Len(call.notes) : call.notes[k].kind = "symbol"

\* C23: once a melody generator (of generate_melody or of
\* morse_to_ai_enhanced_midi) has chosen the pitch of a first symbol, its
\* history of pitches is not empty, which is the condition for the interval
\* branch; and no later symbol of MelodicAI is chosen by the opening rule.
C23_InPhrase ==
    /\ (call.entry \in {"app", "ai"} /\ call.notes # << >>) => call.hist # << >>
    /\ call.entry = "ai" =>
          \A k \in 2..Len(call.notes) :
              call.notes[k].kind = "symbol" => ~call.notes[k].opening

\* C24: when the melody loop of generate_melody or of
\* morse_to_ai_enhanced_midi has just passed a letter or a word separator,
\* the generator's history of pitches is empty and the phrase position is 0,
\* and a note of MelodicAI that stands for the first symbol of a letter was
\* chosen by the opening rule.
C24_LetterReset ==
    call.entry \in {"app", "ai"} =>
        /\ (call.i > 1 /\ call.seq[call.i - 1] \in {" ", "/"})
              => (call.hist = << >> /\ call.phrase_pos = 0)
        /\ call.entry = "ai" =>
              \A n \in 1..Len(call.notes) :
                  (/\ call.notes[n].kind = "symbol"
                   /\ PositionOf(call, n) > 1
                   /\ call.seq[PositionOf(call, n) - 1] \in {" ", "/"})
                      => call.notes[n].opening

C26_TonicNearby ==
    call.entry = "ai" =>
        \A k \in 1..Len(call.notes) :
            call.notes[k].fired = "leading"
                => /\ (call.notes[k].resolved - call.root) % 12 = 0
                   /\ Abs(call.notes[k].resolved - call.notes[k].candidate) <= 12

HarmonyWrites(writes) == SelectSeq(writes, LAMBDA w : w.role = "harmony")

\* the number of windows of length d that start at 0, d, 2 d, ... before end
WindowsBefore(end, d) == IF end <= 0 THEN 0 ELSE ((end - 1) \div d) + 1

C28_MorseShape ==
    (decoded # << >> /\ upload = "midi" /\ Len(ExtractNotes(midi)) >= 2) =>
        /\ Len(SymbolPositions(decoded[1].morse)) = Len(Analysed(midi))
        /\ SeqRange(decoded[1].morse) \subseteq {".", "-", " ", "/"}
        /\ decoded[1].morse[1] \in {".", "-"}
        /\ decoded[1].morse[Len(decoded[1].morse)] \in {".", "-"}
        /\ \A k \in 1..(Len(decoded[1].morse) - 1) :
              decoded[1].morse[k] \in {".", "-"} \/ decoded[1].morse[k + 1] \in {".", "-"}

\* a decode of a file whose first note comes after a silence longer than a
\* word gap, with a letter gap and a word gap between its notes
C28_Witness ==
    /\ decoded # << >> /\ upload = "midi" /\ Len(Analysed(midi)) >= 3
    /\ Analysed(midi)[1][1] > 3 * dot_threshold(Analysed(midi))
    /\ CountOf(decoded[1].morse, " ") >= 1
    /\ CountOf(decoded[1].morse, "/") >= 1

\* C29: in a call that took the AI path without humanize passed as True,
\* every melody note is written with its nominal start time and duration, a
\* note for a symbol with the velocity 100, and a phrase-ending note with the
\* velocity 80 or 90.
C29_NominalUnlessHumanized ==
    (call.entry = "ai" /\ call.humanize # "on") =>
        \A k \in 1..Len(call.notes) :
            /\ call.notes[k].start = call.nominal[k][2]
            /\ call.notes[k].dur = call.nominal[k][3]
            /\ call.notes[k].vel
                  \in (IF call.notes[k].kind = "symbol" THEN {100} ELSE {80, 90})

\* C30: two finished calls of generate_enhanced_files_from_text or of
\* generate_files_from_text for different messages wrote their MIDI files to
\* different paths.
C30_DistinctPaths ==
    \A i, j \in 1..Len(log) :
        (/\ log[i].entry \in {"enh", "ai", "basic"}
         /\ log[j].entry \in {"enh", "ai", "basic"}
         /\ log[i].msg # log[j].msg)
            => log[i].path # log[j].path

====
